---- MODULE Spec2Model ----
(***************************************************************************)
(* Verification model of the Efficy integration (smonier/efficy).          *)
(*                                                                         *)
(* Independent parts of the program are modelled, each with its own        *)
(* specification over the shared variables:                                *)
(*   Spec        the Java gateway: EfficyServiceConfiguration,             *)
(*               EfficyApiServlet, DefaultEfficyAuthenticationService,     *)
(*               DefaultEfficyDemandesService, DefaultEfficyGatewayService *)
(*   SpecBrokers the referential cache of BrokersService (TypeScript)      *)
(*   SpecBean    the scalar bean-field readers (TypeScript)                *)
(*   SpecText    decodeHtmlEntities                                        *)
(*   SpecIds     splitIds                                                  *)
(*   SpecIdList  the id-list readers (asArray, readAsStringArray)          *)
(*   SpecNormalize   the brokersService normalisers, readAsNumber          *)
(*   SpecAttachment  EfficyApiClient.toAttachment                          *)
(*   SpecListing the attachment listing loops                              *)
(*   SpecLookups getEnterpriseName and getPersonInfo of BrokersService     *)
(*   SpecDemande DemandesService.listDemandes, bean to EfficyDemande       *)
(*   SpecUnconfigured  the servlet while no token is configured            *)
(*   SpecLinking the read-modify-write of a demande's DmdAttID             *)
(*   SpecCreation      DemandesService.createDemandeForCurrentUser         *)
(*   SpecFailures      failed fetches of BrokersService                    *)
(*   SpecOpportunityForm  the selects of BrokerNewOpportunity              *)
(*   SpecDetails the details view of DemandesListIsland                    *)
(*                                                                         *)
(* Text is a sequence of one-character strings, so that trimming, parsing  *)
(* and pattern matching are computed character by character.               *)
(***************************************************************************)
EXTENDS Integers, Sequences, FiniteSets, TLC

VARIABLES
    snapshot,     \* EfficyServiceConfiguration.snapshot (the fields modelled)
    activated,    \* the configuration component was activated (service registered)
    request,      \* the HttpServletRequest being handled by doFilter
    pc,           \* where doFilter is: idle, blocked on an upstream call, done
    calls,        \* upstream connections opened for the current request, in order
    upstream,     \* what the upstream answered to the last call of the request
    response,     \* what doFilter wrote to the HttpServletResponse
    locals,       \* the handler's local variables kept across an upstream call
    referentialCache, \* BrokersService.referentialCache: field -> map, or no entry
    pending,      \* referential_for requests in flight, per field name
    issued,       \* referential_for requests sent so far, per field name
    enterpriseCache, \* BrokersService.enterpriseCache: enterprise id -> name
    personCache,  \* BrokersService.personCache: person id -> PersonInfo
    inFlight,     \* /base/Enterprise and /base/Person requests in flight, per id
    settled,      \* what the latest lookup completed without error returned, per id
    lastLookup,   \* the latest step of getEnterpriseName / getPersonInfo
    field,        \* the bean field handed to the scalar readers
    readers,      \* what the three scalar readers returned for `field`
    rawTexts,     \* what the three readAsRawText returned for `field`
    text,         \* the string handed to the string normalisers
    decoded,      \* decodeHtmlEntities applied to `text` once and twice
    idField,      \* the bean field handed to the id-list readers
    idArrays,     \* what asArray(readRawBeanField) and readAsStringArray returned
    normField,    \* the bean field handed to the brokersService normalisers
    normResults,  \* what readAsText, readAsRawText, readAsRawArray, readAsNumber did
    attBean,      \* the attachment bean: its AttFile and AttSize fields
    attachment,   \* what EfficyApiClient.toAttachment made of `attBean`
    listing,      \* a running listDemandeAttachments / listAttachmentsByIds call
    dmdBean,      \* a Demande bean of the list handed to DemandesService.listDemandes
    demande,      \* the EfficyDemande listDemandes made of `dmdBean`
    linking,      \* a demande's DmdAttID upstream and the link operations on it
    creation,     \* a running DemandesService.createDemandeForCurrentUser call
    opportunityForm, \* BrokerNewOpportunity: the form, the persons offered, the fetches
    detailsView,  \* DemandesListIsland: the details view and the running opens
    idLists       \* splitIds applied to `text`, and again to each element

gatewayVars == <<snapshot, activated, request, pc, calls, upstream, response, locals>>
lookupVars == <<enterpriseCache, personCache, inFlight, settled, lastLookup>>
brokersVars == <<referentialCache, pending, issued, lookupVars>>
readerVars == <<field, readers, rawTexts>>
attachmentVars == <<attBean, attachment, listing>>
textVars == <<text, decoded, idLists, idField, idArrays, normField, normResults,
              attachmentVars>>
clientVars == <<dmdBean, demande, linking, creation, opportunityForm, detailsView>>
beanVars == <<readerVars, textVars, clientVars>>
vars == <<gatewayVars, brokersVars, beanVars>>

(***************************************************************************)
(* Text helpers.                                                           *)
(***************************************************************************)

\* Java null / a missing header, parameter or property.  A one-element
\* sequence holding a marker that is no character, so that it compares with
\* any text.
Null == <<"<null>">>

\* Characters that String.trim() strips and that \s matches.
Space == {" "}

RECURSIVE TrimLeft(_)
TrimLeft(s) ==
    IF s = <<>> THEN s
    ELSE IF Head(s) \in Space THEN TrimLeft(Tail(s)) ELSE s

RECURSIVE TrimRight(_)
TrimRight(s) ==
    IF s = <<>> THEN s
    ELSE IF s[Len(s)] \in Space THEN TrimRight(SubSeq(s, 1, Len(s) - 1)) ELSE s

\* java.lang.String.trim()
Trim(s) == TrimRight(TrimLeft(s))

\* java.lang.String.contains(sub)
Contains(s, sub) ==
    \E i \in 1..(Len(s) - Len(sub) + 1) : SubSeq(s, i, i + Len(sub) - 1) = sub

\* All texts over `alphabet` of length at most n.
TextsUpTo(alphabet, n) == UNION {[1..k -> alphabet] : k \in 0..n}

(***************************************************************************)
(* Integer.parseInt, as java.lang.Integer computes it: an optional sign,   *)
(* then decimal digits accumulated negatively with overflow checks.        *)
(***************************************************************************)

Digits == {"0", "1", "2", "3", "4", "5", "6", "7", "8", "9"}

DigitVal(c) ==
    CASE c = "0" -> 0 [] c = "1" -> 1 [] c = "2" -> 2 [] c = "3" -> 3
      [] c = "4" -> 4 [] c = "5" -> 5 [] c = "6" -> 6 [] c = "7" -> 7
      [] c = "8" -> 8 [] c = "9" -> 9

IntegerMaxValue == 2147483647

\* limit / radix for limit = -Integer.MAX_VALUE and for Integer.MIN_VALUE
MultMin == -214748364

\* NumberFormatException
NaN == [ok |-> FALSE, val |-> 0]

\* The digit loop of Integer.parseInt: `acc` is the negated value so far.
RECURSIVE ParseDigits(_, _, _)
ParseDigits(s, acc, limit) ==
    IF s = <<>> THEN [ok |-> TRUE, val |-> acc]
    ELSE IF Head(s) \notin Digits THEN NaN
    ELSE IF acc < MultMin THEN NaN
    ELSE IF acc * 10 < limit + DigitVal(Head(s)) THEN NaN
    ELSE ParseDigits(Tail(s), acc * 10 - DigitVal(Head(s)), limit)

ParseInt(s) ==
    IF s = Null \/ s = <<>> THEN NaN
    ELSE IF Head(s) = "-" THEN
        IF Len(s) = 1 THEN NaN
        ELSE ParseDigits(Tail(s), 0, (-IntegerMaxValue) - 1)
    ELSE IF Head(s) = "+" THEN
        IF Len(s) = 1 THEN NaN
        ELSE LET r == ParseDigits(Tail(s), 0, -IntegerMaxValue)
             IN  IF r.ok THEN [ok |-> TRUE, val |-> -r.val] ELSE NaN
    ELSE LET r == ParseDigits(s, 0, -IntegerMaxValue)
         IN  IF r.ok THEN [ok |-> TRUE, val |-> -r.val] ELSE NaN

Min(a, b) == IF a < b THEN a ELSE b

(***************************************************************************)
(* EfficyServiceConfiguration: Snapshot.empty(), Snapshot.from(properties) *)
(* Only the properties that decide the modelled behaviour are kept: the    *)
(* token (one of the required strings), the maximum page size and the      *)
(* forward_client_authorization switch.                                    *)
(***************************************************************************)

DefaultMaxPageSize == 100

ReadString(value) == IF value = Null THEN Null ELSE Trim(value)

\* requireString: [ok |-> FALSE] stands for the IllegalStateException
RequireString(value) ==
    LET v == ReadString(value)
    IN  IF v = Null \/ v = <<>> THEN [ok |-> FALSE, val |-> <<>>]
        ELSE [ok |-> TRUE, val |-> v]

ReadPositiveInt(value, defaultValue) ==
    LET raw == ReadString(value)
    IN  IF raw = Null \/ raw = <<>> THEN defaultValue
        ELSE LET parsed == ParseInt(raw)
             IN  IF parsed.ok /\ parsed.val > 0 THEN parsed.val ELSE defaultValue

ToLower(c) ==
    CASE c = "T" -> "t" [] c = "R" -> "r" [] c = "U" -> "u" [] c = "E" -> "e"
      [] OTHER -> c

\* Boolean.parseBoolean: "true", ignoring case
ParseBoolean(s) == [i \in 1..Len(s) |-> ToLower(s[i])] = <<"t", "r", "u", "e">>

ReadBoolean(value, defaultValue) ==
    LET raw == ReadString(value)
    IN  IF raw = Null \/ raw = <<>> THEN defaultValue ELSE ParseBoolean(raw)

SnapshotEmpty ==
    [token |-> <<>>, maxPageSize |-> DefaultMaxPageSize,
     forwardClientAuthorization |-> FALSE]

SnapshotFrom(properties) ==
    LET token == RequireString(properties.token)
    IN  IF ~token.ok THEN [ok |-> FALSE, snap |-> SnapshotEmpty]
        ELSE [ok |-> TRUE,
              snap |-> [token |-> token.val,
                        maxPageSize |->
                            ReadPositiveInt(properties.maxPageSize, DefaultMaxPageSize),
                        forwardClientAuthorization |->
                            ReadBoolean(properties.forward, FALSE)]]

(***************************************************************************)
(* DefaultEfficyAuthenticationService                                      *)
(***************************************************************************)

Throw(exc, msg) == [kind |-> "throw", exc |-> exc, msg |-> msg]
Return(val) == [kind |-> "return", val |-> val]

\* Mutant: the caller's header is taken whatever the configuration says.
ResolveAuthorizationHeaderAlwaysForward(snap, req) ==
    IF /\ req.authorization # Null
       /\ Trim(req.authorization) # <<>>
    THEN Return(Trim(req.authorization))
    ELSE IF snap.token = Null THEN
        Throw("IllegalStateException", "Missing Efficy token configuration")
    ELSE IF Trim(snap.token) = <<>> THEN
        Throw("IllegalStateException", "Missing Efficy token configuration")
    ELSE Return(Trim(snap.token))

ResolveAuthorizationHeader(snap, req) ==
    IF /\ snap.forwardClientAuthorization
       /\ req.authorization # Null
       /\ Trim(req.authorization) # <<>>
    THEN Return(Trim(req.authorization))
    ELSE IF snap.token = Null THEN
        Throw("IllegalStateException", "Missing Efficy token configuration")
    ELSE IF Trim(snap.token) = <<>> THEN
        Throw("IllegalStateException", "Missing Efficy token configuration")
    ELSE Return(Trim(snap.token))

(***************************************************************************)
(* DefaultEfficyGatewayService                                             *)
(***************************************************************************)

RECURSIVE TrimLeadingSlashes(_)
TrimLeadingSlashes(s) ==
    IF s # <<>> /\ Head(s) = "/" THEN TrimLeadingSlashes(Tail(s)) ELSE s

\* trimTrailingSlash: replaceAll("/+$", "")
RECURSIVE TrimTrailingSlash(_)
TrimTrailingSlash(s) ==
    IF s # <<>> /\ s[Len(s)] = "/"
    THEN TrimTrailingSlash(SubSeq(s, 1, Len(s) - 1)) ELSE s

TrimSlashes(value) == TrimTrailingSlash(TrimLeadingSlashes(value))

\* Mutant: the traversal test compares the whole path instead of searching it.
NormalizePathWholeOnly(path) ==
    IF path = Null \/ Trim(path) = <<>> THEN
        Throw("IllegalArgumentException", "Missing Efficy path")
    ELSE LET normalized == TrimSlashes(path)
         IN  IF normalized = <<".", ".">> THEN
                 Throw("IllegalArgumentException", "Efficy path contains invalid segments")
             ELSE Return(normalized)

NormalizePath(path) ==
    IF path = Null \/ Trim(path) = <<>> THEN
        Throw("IllegalArgumentException", "Missing Efficy path")
    ELSE LET normalized == TrimSlashes(path)
         IN  IF Contains(normalized, <<".", ".">>) THEN
                 Throw("IllegalArgumentException", "Efficy path contains invalid segments")
             ELSE Return(normalized)

\* new URI(null, null, "/" + path, null).toASCIIString(): a space is quoted,
\* the other characters of the modelled alphabet are legal in a path.
RECURSIVE EncodePath(_)
EncodePath(path) ==
    IF path = <<>> THEN <<>>
    ELSE IF Head(path) = " " THEN <<"%", "2", "0">> \o EncodePath(Tail(path))
    ELSE <<Head(path)>> \o EncodePath(Tail(path))

ResourceTypes == {"ADVANCED", "BASE", "SERVICE"}

ResolveResource(resourceType) ==
    IF resourceType \in ResourceTypes THEN Return(resourceType)
    ELSE Throw("IllegalArgumentException", "Unsupported resource type")

BuildTargetUrl(resourceType, path, query) ==
    LET normalizedPath == NormalizePath(path)
    IN  IF normalizedPath.kind = "throw" THEN normalizedPath
        ELSE LET resource == ResolveResource(resourceType)
             IN  IF resource.kind = "throw" THEN resource
                 ELSE Return([resource |-> resource.val,
                              path |-> EncodePath(normalizedPath.val),
                              query |-> query])

\* DefaultEfficyGatewayService.supportsBody
GatewaySupportsBody(method) == method \in {"POST", "PUT"}

\* forward, up to the point where the connection exists and the request is
\* on its way: the connection it opens, or the exception thrown before.
ForwardOpen(resourceType, path, query, method, requestBody, authorizationHeader, userEmail) ==
    LET targetUrl == BuildTargetUrl(resourceType, path, query)
    IN  IF targetUrl.kind = "throw" THEN targetUrl
        ELSE Return([target |-> targetUrl.val,
                     method |-> method,
                     authorization |-> authorizationHeader,
                     xUserEmail |-> IF userEmail # Null /\ userEmail # <<>>
                                    THEN userEmail ELSE Null,
                     body |-> IF GatewaySupportsBody(method) /\ requestBody # Null
                              THEN requestBody ELSE Null])

(***************************************************************************)
(* Response bodies.  A body is the JSON text, described by the members     *)
(* the program reads or writes: `status`, `error` and the PerID field of   *)
(* the first query result.  A member is Absent, a text, or NonString (a    *)
(* JSON number, null or object, which no "..." pattern matches); the error *)
(* member is the message as a whole, NoError when there is none.           *)
(***************************************************************************)

Absent == <<"<absent>">>
NoError == "<absent>"
NonString == <<"<nonstring>">>

\* PerID as it appears in a Person body
NoPerID == [shape |-> "absent", str |-> Absent,
            raw_value |-> Absent, value |-> Absent, label |-> Absent]
PerIDString(s) == [shape |-> "string", str |-> s,
                   raw_value |-> Absent, value |-> Absent, label |-> Absent]
PerIDDescriptor(raw, val, lab) ==
    [shape |-> "descriptor", str |-> Absent,
     raw_value |-> raw, value |-> val, label |-> lab]

\* the zero-length text
EmptyText == [text |-> "empty", status |-> Absent, error |-> NoError, PerID |-> NoPerID]
JsonObject(status, error, perId) ==
    [text |-> "object", status |-> status, error |-> error, PerID |-> perId]
\* the text {}
EmptyObject == JsonObject(Absent, NoError, NoPerID)
\* the text {"error":"<message>"}
JsonError(message) == JsonObject(Absent, message, NoPerID)

JSON_CONTENT_TYPE == "application/json;charset=UTF-8"

EfficyGatewayResponse(status, contentType, body) ==
    [status |-> status, contentType |-> contentType, body |-> body]

\* getErrorStream() returned null
NoStream == [text |-> "nostream", status |-> Absent, error |-> NoError, PerID |-> NoPerID]

\* Mutant: an empty body is replaced by {} like a missing stream.
ForwardResultEmptyToo(status, contentType, inputStream) ==
    EfficyGatewayResponse(
        status,
        IF contentType # "null" THEN contentType ELSE JSON_CONTENT_TYPE,
        IF inputStream = NoStream \/ inputStream = EmptyText
        THEN EmptyObject ELSE inputStream)

\* forward, from getResponseCode() on: the response built from what the
\* connection reports (its status, its content type or null, its stream).
ForwardResult(status, contentType, inputStream) ==
    EfficyGatewayResponse(
        status,
        IF contentType # "null" THEN contentType ELSE JSON_CONTENT_TYPE,
        IF inputStream = NoStream THEN EmptyObject ELSE inputStream)

(***************************************************************************)
(* DefaultEfficyDemandesService                                            *)
(***************************************************************************)

SC_OK == 200
SC_BAD_REQUEST == 400
SC_NOT_FOUND == 404
SC_METHOD_NOT_ALLOWED == 405
SC_INTERNAL_SERVER_ERROR == 500
SC_BAD_GATEWAY == 502

\* [^\s@]
EmailChar(c) == c \notin Space /\ c # "@"

\* EMAIL_PATTERN.matcher(s).matches(): ^[^\s@]+@[^\s@]+\.[^\s@]+$
EmailMatches(s) ==
    \E i \in 2..Len(s) : \E j \in (i + 2)..(Len(s) - 1) :
        /\ s[i] = "@"
        /\ s[j] = "."
        /\ \A k \in 1..Len(s) : k # i => EmailChar(s[k])

IdChars == {"a", "b", "z", "A", "Z", "_", "-"} \cup Digits

\* PERSON_ID_PATTERN.matcher(s).matches(): [A-Za-z0-9_-]+
PersonIdMatches(s) == s # <<>> /\ \A k \in 1..Len(s) : s[k] \in IdChars

\* Mutant: only the null test, the pattern is not applied.
NormalizeUserEmailNoPattern(userEmail) ==
    IF userEmail = Null THEN
        Throw("IllegalArgumentException", "Unable to resolve logged user email")
    ELSE Return(Trim(userEmail))

NormalizeUserEmail(userEmail) ==
    IF userEmail = Null THEN
        Throw("IllegalArgumentException", "Unable to resolve logged user email")
    ELSE IF ~EmailMatches(Trim(userEmail)) THEN
        Throw("IllegalArgumentException", "Unable to resolve logged user email")
    ELSE Return(Trim(userEmail))

\* A member matched by  "<name>"\s*:\s*"([^"]+)"  : a text of one character
\* or more.
QuotedNonEmpty(member) == member \notin {Absent, NonString, <<>>}

\* firstMatch(value, pattern) for the four PerID patterns; Null when the
\* body is null or empty or the pattern finds nothing.
FirstMatchRawValue(body) ==
    IF body.text # "object" THEN Null
    ELSE IF body.PerID.shape = "descriptor" /\ QuotedNonEmpty(body.PerID.raw_value)
    THEN body.PerID.raw_value ELSE Null

FirstMatchValue(body) ==
    IF body.text # "object" THEN Null
    ELSE IF body.PerID.shape = "descriptor" /\ QuotedNonEmpty(body.PerID.value)
    THEN body.PerID.value ELSE Null

FirstMatchLabel(body) ==
    IF body.text # "object" THEN Null
    ELSE IF body.PerID.shape = "descriptor" /\ QuotedNonEmpty(body.PerID.label)
    THEN body.PerID.label ELSE Null

FirstMatchString(body) ==
    IF body.text # "object" THEN Null
    ELSE IF body.PerID.shape = "string" /\ QuotedNonEmpty(body.PerID.str)
    THEN body.PerID.str ELSE Null

\* Mutant: the label is tried before the value.
ExtractPersonIdLabelFirst(responseBody) ==
    IF FirstMatchRawValue(responseBody) # Null THEN FirstMatchRawValue(responseBody)
    ELSE IF FirstMatchLabel(responseBody) # Null THEN FirstMatchLabel(responseBody)
    ELSE IF FirstMatchValue(responseBody) # Null THEN FirstMatchValue(responseBody)
    ELSE FirstMatchString(responseBody)

ExtractPersonId(responseBody) ==
    IF FirstMatchRawValue(responseBody) # Null THEN FirstMatchRawValue(responseBody)
    ELSE IF FirstMatchValue(responseBody) # Null THEN FirstMatchValue(responseBody)
    ELSE IF FirstMatchLabel(responseBody) # Null THEN FirstMatchLabel(responseBody)
    ELSE FirstMatchString(responseBody)

CustomerNotFoundResponse ==
    EfficyGatewayResponse(
        SC_NOT_FOUND,
        JSON_CONTENT_TYPE,
        JsonError("No Efficy customer found for logged user email"))

\* The query string: the filter triple before URL encoding, the restrict_to
\* list and nb_of_result.
Query(filterField, filterValue, restrictTo, nbOfResult) ==
    [filterField |-> filterField, filterValue |-> filterValue,
     restrictTo |-> restrictTo, nb_of_result |-> nbOfResult]

\* request.getQueryString() of a proxy request (not interpreted)
NoQuery == Query("", <<>>, "", 0)

FetchPersonByEmail(email, authorizationHeader, userEmail) ==
    ForwardOpen("ADVANCED", <<"P", "e", "r", "s", "o", "n">>,
                Query("PerMail", email, "{PerID}", 1),
                "GET", Null, authorizationHeader, userEmail)

FetchDemandesByPersonId(personId, pageSize, authorizationHeader, userEmail) ==
    ForwardOpen("ADVANCED", <<"D", "e", "m", "a", "n", "d", "e">>,
                Query("DmdPerID", personId,
                      "{DmdID,DmdToken,DmdStatus,DmdActID,DmdCrDt,DmdDescription,DmdPriority,DmdQualifID,DmdAttID}",
                      pageSize),
                "GET", Null, authorizationHeader, userEmail)

\* fetchCurrentUserPerson: the call it opens, or the exception
FetchCurrentUserPerson(authorizationHeader, userEmail) ==
    LET normalizedEmail == NormalizeUserEmail(userEmail)
    IN  IF normalizedEmail.kind = "throw" THEN normalizedEmail
        ELSE FetchPersonByEmail(normalizedEmail.val, authorizationHeader,
                                normalizedEmail.val)

\* fetchDemandesForCurrentUser, up to the Person call
FetchDemandesStart(authorizationHeader, userEmail) ==
    LET normalizedEmail == NormalizeUserEmail(userEmail)
    IN  IF normalizedEmail.kind = "throw" THEN normalizedEmail
        ELSE FetchPersonByEmail(normalizedEmail.val, authorizationHeader,
                                normalizedEmail.val)

\* Mutant: without a person id the Person response itself is returned.
FetchDemandesAfterPersonNoNotFound(personResponse, pageSize, authorizationHeader, normalizedEmail) ==
    IF personResponse.status >= 400 THEN Return(personResponse)
    ELSE LET personId == ExtractPersonId(personResponse.body)
         IN  IF personId = Null \/ ~PersonIdMatches(personId)
             THEN Return(personResponse)
             ELSE LET opened == FetchDemandesByPersonId(personId, pageSize,
                                    authorizationHeader, normalizedEmail)
                  IN  IF opened.kind = "throw" THEN opened
                      ELSE [kind |-> "call", val |-> opened.val]

\* Mutant: the status of the Person response is not looked at.
FetchDemandesAfterPersonAnyStatus(personResponse, pageSize, authorizationHeader, normalizedEmail) ==
    LET personId == ExtractPersonId(personResponse.body)
    IN  IF personId = Null \/ ~PersonIdMatches(personId)
        THEN Return(CustomerNotFoundResponse)
        ELSE LET opened == FetchDemandesByPersonId(personId, pageSize,
                               authorizationHeader, normalizedEmail)
             IN  IF opened.kind = "throw" THEN opened
                 ELSE [kind |-> "call", val |-> opened.val]

\* fetchDemandesForCurrentUser, from the Person response on: the response it
\* returns ("return"), the Demande call it opens ("call"), or the exception.
FetchDemandesAfterPerson(personResponse, pageSize, authorizationHeader, normalizedEmail) ==
    IF personResponse.status >= 400 THEN Return(personResponse)
    ELSE LET personId == ExtractPersonId(personResponse.body)
         IN  IF personId = Null \/ ~PersonIdMatches(personId)
             THEN Return(CustomerNotFoundResponse)
             ELSE LET opened == FetchDemandesByPersonId(personId, pageSize,
                                    authorizationHeader, normalizedEmail)
                  IN  IF opened.kind = "throw" THEN opened
                      ELSE [kind |-> "call", val |-> opened.val]

(***************************************************************************)
(* EfficyApiServlet                                                        *)
(***************************************************************************)

DEFAULT_PAGE_SIZE == 20

SUPPORTED_METHODS == {"GET", "POST", "PUT", "DELETE"}

\* readCurrentJahiaUserEmail: sessionEmail is Null when there is no current
\* user or the user has no j:email property
ReadCurrentJahiaUserEmail(req) ==
    IF req.sessionEmail = Null THEN Null
    ELSE IF Trim(req.sessionEmail) = <<>> THEN Null
    ELSE Trim(req.sessionEmail)

\* Mutant: the header of the caller comes first.
ReadUserEmailHeaderFirst(req) ==
    IF req.xUserEmail # Null /\ Trim(req.xUserEmail) # <<>> THEN Trim(req.xUserEmail)
    ELSE ReadCurrentJahiaUserEmail(req)

ReadUserEmail(req) ==
    IF ReadCurrentJahiaUserEmail(req) # Null THEN ReadCurrentJahiaUserEmail(req)
    ELSE IF req.xUserEmail = Null THEN Null
    ELSE IF Trim(req.xUserEmail) = <<>> THEN Null
    ELSE Trim(req.xUserEmail)

ServletSupportsBody(method) == method = "POST" \/ method = "PUT"

\* Mutant: zero is accepted (>= instead of >).
ParsePositiveIntZero(value, defaultValue) ==
    IF value = Null \/ value = <<>> THEN defaultValue
    ELSE LET parsed == ParseInt(value)
         IN  IF parsed.ok /\ parsed.val >= 0 THEN parsed.val ELSE defaultValue

ParsePositiveInt(value, defaultValue) ==
    IF value = Null \/ value = <<>> THEN defaultValue
    ELSE LET parsed == ParseInt(value)
         IN  IF parsed.ok /\ parsed.val > 0 THEN parsed.val ELSE defaultValue

\* What the servlet wrote: status, content type and body.
WriteGatewayResponse(gatewayResponse) ==
    [status |-> gatewayResponse.status,
     contentType |-> gatewayResponse.contentType,
     body |-> gatewayResponse.body]

WriteJson(status, payload) ==
    [status |-> status, contentType |-> JSON_CONTENT_TYPE, body |-> payload]

\* The messages written hold no quote and no backslash, which is all that
\* escapeJson changes.
WriteJsonError(status, message) == WriteJson(status, JsonError(message))

NoLocals == [pageSize |-> 0, authorization |-> Null, userEmail |-> Null]

\* A handler blocked in gatewayService.forward: the connection it opened,
\* where it resumes, and the locals it resumes with.
Blocked(call, at, loc) == [kind |-> "call", val |-> call, at |-> at, locals |-> loc]

HandleDemandes(snap, req) ==
    LET requestedPageSize == ParsePositiveInt(req.pageSize, DEFAULT_PAGE_SIZE)
        pageSize == Min(requestedPageSize, snap.maxPageSize)
        authorization == ResolveAuthorizationHeader(snap, req)
        userEmail == ReadUserEmail(req)
    IN  IF authorization.kind = "throw" THEN authorization
        ELSE LET opened == FetchDemandesStart(authorization.val, userEmail)
             IN  IF opened.kind = "throw" THEN opened
                 ELSE Blocked(opened.val, "demandes_person",
                              [pageSize |-> pageSize,
                               authorization |-> authorization.val,
                               userEmail |-> opened.val.xUserEmail])

HandleCurrentPerson(snap, req) ==
    LET authorization == ResolveAuthorizationHeader(snap, req)
        userEmail == ReadUserEmail(req)
    IN  IF authorization.kind = "throw" THEN authorization
        ELSE LET opened == FetchCurrentUserPerson(authorization.val, userEmail)
             IN  IF opened.kind = "throw" THEN opened
                 ELSE Blocked(opened.val, "person", NoLocals)

\* The route of a proxy request is /<type segment>/<path>; doFilter hands
\* over only routes that start with /advanced/, /base/ or /service/, so the
\* type segment always names a resource type.
HandleProxy(snap, req) ==
    IF req.method \notin SUPPORTED_METHODS THEN
        Return(WriteJsonError(SC_METHOD_NOT_ALLOWED, "Unsupported HTTP method"))
    ELSE IF req.resourceType \notin ResourceTypes THEN
        Throw("IllegalArgumentException", "Unsupported resource type")
    ELSE
        LET body == IF ServletSupportsBody(req.method) THEN req.body ELSE Null
            authorization == ResolveAuthorizationHeader(snap, req)
            userEmail == ReadUserEmail(req)
        IN  IF authorization.kind = "throw" THEN authorization
            ELSE LET opened == ForwardOpen(req.resourceType, req.path, NoQuery,
                                           req.method, body, authorization.val, userEmail)
                 IN  IF opened.kind = "throw" THEN opened
                     ELSE Blocked(opened.val, "proxy", NoLocals)

\* Mutant: the IOException clause is missing, the general clause takes it.
CatchNoIOClause(thrown) ==
    IF thrown.exc = "IllegalArgumentException" THEN
        WriteJsonError(SC_BAD_REQUEST, thrown.msg)
    ELSE WriteJsonError(SC_INTERNAL_SERVER_ERROR, "Unexpected server error")

\* Mutant: the general clause writes the message of the exception.
CatchWritesMessage(thrown) ==
    IF thrown.exc = "IllegalArgumentException" THEN
        WriteJsonError(SC_BAD_REQUEST, thrown.msg)
    ELSE IF thrown.exc = "IOException" THEN
        WriteJsonError(SC_BAD_GATEWAY, "Efficy API communication failed")
    ELSE WriteJsonError(SC_INTERNAL_SERVER_ERROR, thrown.msg)

\* The catch clauses of doFilter.
Catch(thrown) ==
    IF thrown.exc = "IllegalArgumentException" THEN
        WriteJsonError(SC_BAD_REQUEST, thrown.msg)
    ELSE IF thrown.exc = "IOException" THEN
        WriteJsonError(SC_BAD_GATEWAY, "Efficy API communication failed")
    ELSE WriteJsonError(SC_INTERNAL_SERVER_ERROR, "Unexpected server error")

\* doFilter up to its first upstream call or to its response.  The method
\* of the request is upper case (the comparisons of doFilter ignore case).
DoFilter(snap, req) ==
    IF req.route = "/health" /\ req.method = "GET" THEN
        Return(WriteJson(SC_OK, JsonObject(<<"U", "P">>, NoError, NoPerID)))
    ELSE IF req.route = "/me/demandes" /\ req.method = "GET" THEN
        HandleDemandes(snap, req)
    ELSE IF req.route = "/me/person" /\ req.method = "GET" THEN
        HandleCurrentPerson(snap, req)
    ELSE IF req.route = "/proxy" THEN
        HandleProxy(snap, req)
    ELSE Return(WriteJsonError(SC_NOT_FOUND, "Unknown endpoint"))

(***************************************************************************)
(* BrokersService: the referential cache.  JavaScript runs one task at a   *)
(* time and switches tasks at an await only, so each action below is the   *)
(* code between two awaits.  The requests in flight are counted per field: *)
(* the calls waiting for them differ in nothing else.                      *)
(***************************************************************************)

\* Requests in flight for one field, and requests sent for one field
MaxPending == 3
MaxIssued == 3

\* Rows of the Opportunity list handled by one fetchBrokerOpportunities
MaxRows == 2

Fields == {"OppStoID", "OppStuID"}

\* A ReferentialItem, its id possibly empty
Item(id, te1) == [id |-> id, te1 |-> te1]

\* The payloads of /service/referential_for: a bare array, {data: [...]},
\* {data: {data: [...]}}, or something else
Payloads ==
    {[shape |-> "array", rows |-> <<Item("1", "A")>>],
     [shape |-> "data", rows |-> <<Item("", "X"), Item("1", "B"), Item("2", "C")>>],
     [shape |-> "nested", rows |-> <<>>],
     [shape |-> "other", rows |-> <<Item("1", "A")>>]}

ExtractReferentialRows(payload) ==
    IF payload.shape \in {"array", "data", "nested"} THEN payload.rows ELSE <<>>

\* new Map filled by rows.forEach: rows with an empty id are skipped, a later
\* row replaces an earlier one with the same id
BuildMap(rows) ==
    LET ids == {rows[i].id : i \in 1..Len(rows)} \ {""}
        last(id) == CHOOSE i \in 1..Len(rows) :
                        /\ rows[i].id = id
                        /\ \A j \in (i + 1)..Len(rows) : rows[j].id # id
    IN  [id \in ids |-> rows[last(id)].te1]

\* referentialCache.get(field): has = FALSE stands for undefined
NoEntry == [has |-> FALSE, map |-> BuildMap(<<>>)]
Entry(map) == [has |-> TRUE, map |-> map]

\* The ids looked up, and the two lookups
LookupIds == {"1", "2"}
LookupKinds == {"enterprise", "person"}

\* { name: "", functionId: "" }; an enterprise name is held as the name of
\* such a record
PersonInfo(name, functionId) == [name |-> name, functionId |-> functionId]
NoInfo == PersonInfo(<<>>, <<>>)

\* enterpriseCache.get(id) / personCache.get(id): has = FALSE stands for
\* undefined
NotCached == [has |-> FALSE, val |-> NoInfo]
Cached(val) == [has |-> TRUE, val |-> val]

NoLookup ==
    [op |-> "none", kind |-> "none", id |-> "", sent |-> FALSE,
     returned |-> FALSE, result |-> NoInfo]

BrokersConstructed ==
    /\ referentialCache = [f \in Fields |-> NoEntry]
    /\ pending = [f \in Fields |-> 0]
    /\ issued = [f \in Fields |-> 0]
    /\ enterpriseCache = [id \in LookupIds |-> NotCached]
    /\ personCache = [id \in LookupIds |-> NotCached]
    /\ inFlight = [k \in LookupKinds |-> [id \in LookupIds |-> 0]]
    /\ settled = [k \in LookupKinds |-> [id \in LookupIds |-> NotCached]]
    /\ lastLookup = NoLookup

\* getReferentialMap(field) up to its await: a cached map (an object, hence
\* truthy even when empty) is returned, otherwise the request is sent.
\* The result is the number of requests sent: 0 or 1.
GetReferentialMapSends(cache, fieldName) ==
    IF cache[fieldName].has THEN 0 ELSE 1

\* getReferentialLabel / getReferentialNumber up to their await: nothing is
\* resolved for an empty id.
GetReferentialLabelSends(cache, fieldName, id) ==
    IF id = "" THEN 0 ELSE GetReferentialMapSends(cache, fieldName)

\* A call of getReferentialMap (fetchOpportunityFormOptions) or of
\* getReferentialLabel / getReferentialNumber (fetchPersonsByEnterprise,
\* toDisplayOpportunity) for one field.
CallReferential(fieldName, id) ==
    LET sends == GetReferentialLabelSends(referentialCache, fieldName, id)
    IN  /\ pending[fieldName] + sends <= MaxPending
        /\ issued[fieldName] + sends <= MaxIssued
        /\ pending' = [pending EXCEPT ![fieldName] = @ + sends]
        /\ issued' = [issued EXCEPT ![fieldName] = @ + sends]
        /\ UNCHANGED referentialCache
        /\ UNCHANGED <<gatewayVars, beanVars, lookupVars>>

\* Requests sent for fieldName by rows.map(toDisplayOpportunity): every row
\* runs to its first await before any answer is handled.
RECURSIVE RowsSend(_, _, _)
RowsSend(cache, rows, fieldName) ==
    IF rows = <<>> THEN 0
    ELSE GetReferentialLabelSends(cache, fieldName, Head(rows)[fieldName])
         + RowsSend(cache, Tail(rows), fieldName)

\* fetchBrokerOpportunities, from the answer to the Opportunity query on:
\* Promise.all(rows.map(row => toDisplayOpportunity(row))).
FetchBrokerOpportunities(rows) ==
    /\ \A f \in Fields :
          /\ pending[f] + RowsSend(referentialCache, rows, f) <= MaxPending
          /\ issued[f] + RowsSend(referentialCache, rows, f) <= MaxIssued
    /\ pending' = [f \in Fields |-> pending[f] + RowsSend(referentialCache, rows, f)]
    /\ issued' = [f \in Fields |-> issued[f] + RowsSend(referentialCache, rows, f)]
    /\ UNCHANGED referentialCache
    /\ UNCHANGED <<gatewayVars, beanVars, lookupVars>>

\* getReferentialMap after its await: the answer is turned into a map, which
\* is stored.
ReferentialResolved(fieldName, payload) ==
    /\ pending[fieldName] > 0
    /\ pending' = [pending EXCEPT ![fieldName] = @ - 1]
    /\ referentialCache' =
           [referentialCache EXCEPT
               ![fieldName] = Entry(BuildMap(ExtractReferentialRows(payload)))]
    /\ UNCHANGED issued
    /\ UNCHANGED <<gatewayVars, beanVars, lookupVars>>

\* Mutant: a rejection stores an empty map for the field.
ReferentialRejectedStoresEmpty(fieldName) ==
    /\ pending[fieldName] > 0
    /\ pending' = [pending EXCEPT ![fieldName] = @ - 1]
    /\ referentialCache' = [referentialCache EXCEPT ![fieldName] = Entry(BuildMap(<<>>))]
    /\ UNCHANGED issued
    /\ UNCHANGED <<gatewayVars, beanVars, lookupVars>>

\* httpClient.get rejects (HttpError, network error): nothing is stored.
ReferentialRejected(fieldName) ==
    /\ pending[fieldName] > 0
    /\ pending' = [pending EXCEPT ![fieldName] = @ - 1]
    /\ UNCHANGED <<referentialCache, issued>>
    /\ UNCHANGED <<gatewayVars, beanVars, lookupVars>>

\* The referential ids of an Opportunity row: empty or set
OpportunityRows == [Fields -> {"", "1"}]

RowBatches == UNION {[1..n -> OpportunityRows] : n \in 0..MaxRows}

(***************************************************************************)
(* The scalar readers of a bean field (TypeScript).  A JavaScript value is *)
(* a record: t is its type (undefined, null, string, list, object), v its  *)
(* content (the one text of a string, the elements of a list), and for an  *)
(* object - a field descriptor - the three members.                        *)
(***************************************************************************)

Member(t, v) == [t |-> t, v |-> v]
Undefined == Member("undefined", <<>>)
JsNull == Member("null", <<>>)
Str(s) == Member("string", <<s>>)
List(elements) == Member("list", elements)

\* A value that is no descriptor
Value(m) ==
    [t |-> m.t, v |-> m.v, raw_value |-> Undefined, value |-> Undefined,
     label |-> Undefined]

\* The object {raw_value, value, label}; a member that is Undefined is missing
Descriptor(raw, val, lab) ==
    [t |-> "object", v |-> <<>>, raw_value |-> raw, value |-> val, label |-> lab]

\* Reading a property of null throws
TypeError == Value(Member("TypeError", <<>>))

\* brokersService.readFieldValue(bean, key), f being bean[key]
BrokersReadFieldValue(f) ==
    IF f.t = "undefined" THEN Value(Undefined)
    ELSE IF f.t \in {"string", "list"} THEN f
    ELSE IF f.t = "null" THEN TypeError
    ELSE IF f.raw_value.t \notin {"undefined", "null"} THEN Value(f.raw_value)
    ELSE IF f.value.t \notin {"undefined", "null"} THEN Value(f.value)
    ELSE IF f.label.t \notin {"undefined", "null"} THEN Value(f.label)
    ELSE f

\* profileService.readField(bean, key)
ProfileReadField(f) ==
    IF f.t \in {"undefined", "null"} THEN Value(Undefined)
    ELSE IF f.t \in {"string", "list"} THEN f
    ELSE IF f.raw_value.t \notin {"undefined", "null"} THEN Value(f.raw_value)
    ELSE IF f.value.t \notin {"undefined", "null"} THEN Value(f.value)
    ELSE IF f.label.t \notin {"undefined", "null"} THEN Value(f.label)
    ELSE f

\* EfficyApiClient.readFieldValue(bean, key)
ApiClientReadFieldValue(f) ==
    IF f.t = "undefined" THEN Value(Undefined)
    ELSE IF f.t \in {"string", "list"} THEN f
    ELSE IF f.t = "null" THEN TypeError
    ELSE IF f.raw_value.t # "undefined" THEN Value(f.raw_value)
    ELSE IF f.value.t # "undefined" THEN Value(f.value)
    ELSE Value(f.label)

\* The members a descriptor is made of
RawValues ==
    {Undefined, JsNull, Str(""), Str("r"), List(<<"r1", "r2">>)}
Values ==
    {Undefined, JsNull, Str(""), Str("v"), List(<<"v1">>)}
Labels ==
    {Undefined, JsNull, Str(""), Str("l")}

\* bean[key]: missing, null, a string, a list, a descriptor
FieldShapes ==
    {Value(Undefined), Value(JsNull), Value(Str("")), Value(Str("s")),
     Value(List(<<>>)), Value(List(<<"a", "b">>))}
    \cup {Descriptor(r, v, l) : r \in RawValues, v \in Values, l \in Labels}

NotRead ==
    [read |-> FALSE, brokersService |-> Value(Undefined),
     profileService |-> Value(Undefined), apiClient |-> Value(Undefined)]

\* The three readers are applied to the field.
ReadField ==
    /\ ~readers.read
    /\ readers' = [read |-> TRUE,
                   brokersService |-> BrokersReadFieldValue(field),
                   profileService |-> ProfileReadField(field),
                   apiClient |-> ApiClientReadFieldValue(field)]
    /\ UNCHANGED <<field, rawTexts>>
    /\ UNCHANGED <<clientVars, gatewayVars, brokersVars, textVars>>

\* a ?? b
Nullish(m) == m.t \in {"undefined", "null"}
Coalesce(a, b) == IF Nullish(a) THEN b ELSE a

\* rawValue.find((entry) => typeof entry === "string"), "" when there is none;
\* rawValue[0] ?? "" gives the same for a list of strings
FirstString(elements) == IF elements = <<>> THEN "" ELSE elements[1]

\* brokersService.readAsRawText(bean, key), f being bean[key]
BrokersReadAsRawText(f) ==
    IF f.t = "string" THEN f.v[1]
    ELSE IF f.t # "object" THEN ""
    ELSE LET rawValue == Coalesce(f.raw_value, f.value)
         IN  IF rawValue.t = "list" THEN FirstString(rawValue.v)
             ELSE IF rawValue.t = "string" THEN rawValue.v[1]
             ELSE ""

\* EfficyApiClient.readAsRawText(bean, key)
ApiClientReadAsRawText(f) ==
    IF f.t = "string" THEN f.v[1]
    ELSE IF f.t # "object" THEN ""
    ELSE LET rawValue == Coalesce(f.raw_value, f.value)
         IN  IF rawValue.t = "list" THEN FirstString(rawValue.v)
             ELSE IF Nullish(rawValue) THEN ""
             ELSE rawValue.v[1]

\* knowledgeBaseService.readAsRawText(bean, key)
KnowledgeBaseReadAsRawText(f) ==
    IF f.t = "string" THEN f.v[1]
    ELSE IF f.t # "object" THEN ""
    ELSE LET rawValue == Coalesce(f.raw_value, f.value)
         IN  IF rawValue.t = "list" THEN FirstString(rawValue.v)
             ELSE IF rawValue.t = "string" THEN rawValue.v[1]
             ELSE IF f.label.t = "string" THEN f.label.v[1]
             ELSE ""

NoRawTexts ==
    [read |-> FALSE, brokersService |-> "", apiClient |-> "", knowledgeBase |-> ""]

\* The three raw-text readers are applied to the field.
ReadAsRawText ==
    /\ ~rawTexts.read
    /\ rawTexts' = [read |-> TRUE,
                    brokersService |-> BrokersReadAsRawText(field),
                    apiClient |-> ApiClientReadAsRawText(field),
                    knowledgeBase |-> KnowledgeBaseReadAsRawText(field)]
    /\ UNCHANGED <<field, readers>>
    /\ UNCHANGED <<clientVars, gatewayVars, brokersVars, textVars>>

(***************************************************************************)
(* decodeHtmlEntities (brokersService.ts and demandesService.ts hold the   *)
(* same function).  The result of a call is [ok, val]: the text returned,  *)
(* or ok = FALSE when the call throws.                                     *)
(***************************************************************************)

DecimalDigits == {"0", "1", "2", "3", "4", "5", "6", "7", "8", "9"}
LowerLetters ==
    {"a", "b", "c", "d", "e", "f", "g", "h", "i", "j", "k", "l", "m", "n",
     "o", "p", "q", "r", "s", "t", "u", "v", "w", "x", "y", "z"}
UpperLetters ==
    {"A", "B", "C", "D", "E", "F", "G", "H", "I", "J", "K", "L", "M", "N",
     "O", "P", "Q", "R", "S", "T", "U", "V", "W", "X", "Y", "Z"}
\* [a-zA-Z]
IsLetter(c) == c \in LowerLetters \cup UpperLetters
\* [0-9a-fA-F]
IsHexDigit(c) ==
    c \in DecimalDigits \cup {"a", "b", "c", "d", "e", "f", "A", "B", "C", "D", "E", "F"}

HexVal(c) ==
    IF c \in DecimalDigits THEN DigitVal(c)
    ELSE IF c \in {"a", "A"} THEN 10
    ELSE IF c \in {"b", "B"} THEN 11
    ELSE IF c \in {"c", "C"} THEN 12
    ELSE IF c \in {"d", "D"} THEN 13
    ELSE IF c \in {"e", "E"} THEN 14
    ELSE 15

\* String.fromCodePoint accepts 0 .. 0x10FFFF and throws RangeError above
MaxCodePoint == 1114111

\* The characters the inputs can name by a numeric reference; every other
\* code point is one character "?" that the decoder treats as plain text
CodePointChar(code) ==
    CASE code = 35 -> "#"
      [] code = 38 -> "&"
      [] code = 59 -> ";"
      [] code = 60 -> "<"
      [] code = 62 -> ">"
      [] code = 97 -> "a"
      [] OTHER -> "?"

Returned(val) == [ok |-> TRUE, val |-> val]
RangeError == [ok |-> FALSE, val |-> <<>>]

\* The length of the longest prefix of s whose characters are all in class
RECURSIVE RunLength(_, _)
RunLength(s, class) ==
    IF s # <<>> /\ s[1] \in class THEN 1 + RunLength(Tail(s), class) ELSE 0

HexDigitChars == {c \in DecimalDigits \cup LowerLetters \cup UpperLetters : IsHexDigit(c)}
LetterChars == LowerLetters \cup UpperLetters

\* Number.parseInt(digits, radix) over the leading digits of that radix; a
\* value above MaxCodePoint is kept as MaxCodePoint + 1 (fromCodePoint
\* throws for all of them alike)
RECURSIVE ParseIntRadix(_, _, _)
ParseIntRadix(digits, radix, acc) ==
    IF digits = <<>> THEN acc
    ELSE IF radix = 10 /\ digits[1] \notin DecimalDigits THEN acc
    ELSE ParseIntRadix(Tail(digits), radix,
                       Min(acc * radix + HexVal(digits[1]), MaxCodePoint + 1))

\* namedEntities[entity] ?? match
NamedEntity(entity, match) ==
    CASE entity = <<"a", "m", "p">> -> <<"&">>
      [] entity = <<"l", "t">> -> <<"<">>
      [] entity = <<"g", "t">> -> <<">">>
      [] entity = <<"q", "u", "o", "t">> -> <<"\"">>
      [] entity = <<"a", "p", "o", "s">> -> <<"'">>
      [] entity = <<"n", "b", "s", "p">> -> <<" ">>
      [] OTHER -> match

\* The number of characters /&(#x?[0-9a-fA-F]+|[a-zA-Z]+);/ matches at the
\* start of s, 0 when it does not match there
MatchLength(s) ==
    IF Len(s) < 3 \/ s[1] # "&" THEN 0
    ELSE IF s[2] = "#"
    THEN LET from == IF s[3] = "x" THEN 4 ELSE 3
             run == RunLength(SubSeq(s, from, Len(s)), HexDigitChars)
         IN  IF run >= 1 /\ from + run <= Len(s) /\ s[from + run] = ";"
             THEN from + run ELSE 0
    ELSE LET run == RunLength(SubSeq(s, 2, Len(s)), LetterChars)
         IN  IF run >= 1 /\ 2 + run <= Len(s) /\ s[2 + run] = ";"
             THEN 2 + run ELSE 0

\* The replace callback: what one matched entity becomes
ReplaceEntity(match) ==
    LET entity == SubSeq(match, 2, Len(match) - 1)
    IN  IF entity[1] = "#"
        THEN LET digits == IF entity[2] \in {"x", "X"}
                           THEN SubSeq(entity, 3, Len(entity))
                           ELSE SubSeq(entity, 2, Len(entity))
                 radix == IF entity[2] \in {"x", "X"} THEN 16 ELSE 10
                 code == ParseIntRadix(digits, radix, 0)
             IN  IF radix = 10 /\ digits[1] \notin DecimalDigits
                 THEN Returned(match)
                 ELSE IF code > MaxCodePoint THEN RangeError
                 ELSE Returned(<<CodePointChar(code)>>)
        ELSE Returned(NamedEntity(entity, match))

\* value.replace(/.../g, callback): one pass from left to right, the text
\* a replacement produced is not scanned again
RECURSIVE ReplaceAll(_)
ReplaceAll(s) ==
    IF s = <<>> THEN Returned(<<>>)
    ELSE LET n == MatchLength(s)
         IN  IF n = 0
             THEN LET rest == ReplaceAll(Tail(s))
                  IN  IF rest.ok THEN Returned(<<s[1]>> \o rest.val) ELSE RangeError
             ELSE LET one == ReplaceEntity(SubSeq(s, 1, n))
                      rest == ReplaceAll(SubSeq(s, n + 1, Len(s)))
                  IN  IF one.ok /\ rest.ok THEN Returned(one.val \o rest.val)
                      ELSE RangeError

\* Mutant: the replacement is decoded again until nothing changes.
RECURSIVE DecodeHtmlEntitiesRepeated(_)
DecodeHtmlEntitiesRepeated(value) ==
    LET once == ReplaceAll(value)
    IN  IF ~once.ok \/ once.val = value THEN once
        ELSE DecodeHtmlEntitiesRepeated(once.val)

DecodeHtmlEntities(value) ==
    IF value = <<>> \/ ~Contains(value, <<"&">>) THEN Returned(value)
    ELSE ReplaceAll(value)

\* The pieces the input strings are made of
MaxTokens == 3
Tokens ==
    {<<"&">>, <<"a">>, <<"a", "m", "p", ";">>, <<"l", "t", ";">>,
     <<"&", "z", ";">>, <<"#", "6", "0", ";">>,
     <<"&", "#", "3", "8", ";">>, <<"&", "#", "x", "2", "6", ";">>,
     <<"&", "#", "x", ";">>, <<"&", "#", "f", ";">>,
     <<"&", "#", "1", "1", "1", "4", "1", "1", "2", ";">>}

RECURSIVE Concat(_)
Concat(pieces) ==
    IF pieces = <<>> THEN <<>> ELSE pieces[1] \o Concat(Tail(pieces))

Texts == {Concat(pieces) : pieces \in UNION {[1..n -> Tokens] : n \in 0..MaxTokens}}

NotDecoded == [done |-> FALSE, once |-> Returned(<<>>), twice |-> Returned(<<>>)]

\* decodeHtmlEntities(text), and decodeHtmlEntities of what it returned
Decode ==
    /\ ~decoded.done
    /\ LET once == DecodeHtmlEntities(text)
       IN  decoded' = [done |-> TRUE, once |-> once,
                       twice |-> IF once.ok THEN DecodeHtmlEntities(once.val)
                                 ELSE RangeError]
    /\ UNCHANGED <<text, idLists, idField, idArrays, normField, normResults>>
    /\ UNCHANGED <<clientVars, gatewayVars, brokersVars, readerVars, attachmentVars>>

(***************************************************************************)
(* splitIds (demandesService.ts, profileService.ts and documentsService.ts *)
(* hold the same function, up to the name of one local).                   *)
(***************************************************************************)

\* value.split(/[;,]/): the pieces between the separators, empty ones kept
RECURSIVE SplitOnSeparators(_, _)
SplitOnSeparators(s, piece) ==
    IF s = <<>> THEN <<piece>>
    ELSE IF s[1] \in {";", ","}
    THEN <<piece>> \o SplitOnSeparators(Tail(s), <<>>)
    ELSE SplitOnSeparators(Tail(s), Append(piece, s[1]))

RECURSIVE DropLeadingQuotes(_)
DropLeadingQuotes(s) ==
    IF s # <<>> /\ s[1] = "\"" THEN DropLeadingQuotes(Tail(s)) ELSE s

RECURSIVE DropTrailingQuotes(_)
DropTrailingQuotes(s) ==
    IF s # <<>> /\ s[Len(s)] = "\""
    THEN DropTrailingQuotes(SubSeq(s, 1, Len(s) - 1)) ELSE s

\* entry.replace(/^"+|"+$/g, "")
StripQuotes(entry) == DropTrailingQuotes(DropLeadingQuotes(entry))

\* (startsWith("[") && endsWith("]")) || (startsWith("{") && endsWith("}"))
Wrapped(trimmed) ==
    \/ trimmed[1] = "[" /\ trimmed[Len(trimmed)] = "]"
    \/ trimmed[1] = "{" /\ trimmed[Len(trimmed)] = "}"

\* .map(..).filter((entry) => entry.length > 0)
RECURSIVE MapFilter(_, _)
MapFilter(pieces, unquote) ==
    IF pieces = <<>> THEN <<>>
    ELSE LET entry == IF unquote THEN Trim(StripQuotes(pieces[1]))
                      ELSE Trim(pieces[1])
         IN  (IF entry = <<>> THEN <<>> ELSE <<entry>>)
             \o MapFilter(Tail(pieces), unquote)

SplitIds(value) ==
    LET trimmed == Trim(value)
    IN  IF trimmed = <<>> THEN <<>>
        ELSE IF Wrapped(trimmed)
        THEN LET withoutBraces == Trim(SubSeq(trimmed, 2, Len(trimmed) - 1))
             IN  IF withoutBraces = <<>> THEN <<>>
                 ELSE MapFilter(SplitOnSeparators(withoutBraces, <<>>), TRUE)
        ELSE MapFilter(SplitOnSeparators(trimmed, <<>>), FALSE)

\* entries.flatMap((entry) => splitIds(entry))
RECURSIVE FlatMapSplitIds(_)
FlatMapSplitIds(entries) ==
    IF entries = <<>> THEN <<>>
    ELSE SplitIds(entries[1]) \o FlatMapSplitIds(Tail(entries))

\* The strings splitIds is applied to
MaxIdLen == 5
IdTexts ==
    TextsUpTo({"[", "]", ",", "\"", " ", "a"}, MaxIdLen)
    \cup {<<"{", "a", ";", "b", "}">>, <<"{", "\"", "a", "\"", ";", "a", "}">>,
          <<"a", ";", "{", "b", "}">>, <<"[", "a", "}">>}

NotSplit == [done |-> FALSE, once |-> <<>>, again |-> <<>>]

\* splitIds(text), then splitIds of each element of the result
Split ==
    /\ ~idLists.done
    /\ idLists' = [done |-> TRUE, once |-> SplitIds(text),
                   again |-> FlatMapSplitIds(SplitIds(text))]
    /\ UNCHANGED <<text, decoded, idField, idArrays, normField, normResults>>
    /\ UNCHANGED <<clientVars, gatewayVars, brokersVars, readerVars, attachmentVars>>

(***************************************************************************)
(* The id-list readers.  The strings of `idField` are character sequences. *)
(***************************************************************************)

\* demandesService.readRawBeanField(bean, key), f being bean[key]
ReadRawBeanField(f) ==
    IF f.t \in {"string", "list"} THEN Member(f.t, f.v)
    ELSE IF f.t \in {"undefined", "null"} THEN Undefined
    ELSE Coalesce(f.raw_value, Coalesce(f.value, f.label))

\* The result of asArray: a list, or undefined
NoArray == [defined |-> FALSE, list |-> <<>>]
Array(list) == [defined |-> TRUE, list |-> list]

\* demandesService.asArray(value)
AsArray(value) ==
    IF value.t = "list"
    THEN LET normalized == FlatMapSplitIds(value.v)
         IN  IF Len(normalized) > 0 THEN Array(normalized) ELSE NoArray
    ELSE IF value.t = "string" /\ Trim(value.v[1]) # <<>>
    THEN LET normalized == SplitIds(value.v[1])
         IN  IF Len(normalized) > 0 THEN Array(normalized) ELSE NoArray
    ELSE NoArray

\* value.flatMap((entry) => extractStringValues(entry)) over strings
RECURSIVE TrimmedNonEmpty(_)
TrimmedNonEmpty(entries) ==
    IF entries = <<>> THEN <<>>
    ELSE (IF Trim(entries[1]) = <<>> THEN <<>> ELSE <<Trim(entries[1])>>)
         \o TrimmedNonEmpty(Tail(entries))

\* profileService.extractStringValues of a member (string, list, null, undefined)
ExtractMemberStrings(m) ==
    IF m.t \in {"string", "list"} THEN TrimmedNonEmpty(m.v) ELSE <<>>

\* profileService.extractStringValues(value), value being what readField returned
ExtractStringValues(value) ==
    IF value.t = "object"
    THEN ExtractMemberStrings(value.raw_value) \o ExtractMemberStrings(value.value)
         \o ExtractMemberStrings(value.label)
    ELSE ExtractMemberStrings(Member(value.t, value.v))

\* profileService.readAsStringArray(bean, key)
ReadAsStringArray(f) ==
    FlatMapSplitIds(ExtractStringValues(ProfileReadField(f)))

\* The strings of an id field, and the fields made of them
IdScalars ==
    {<<>>, <<" ">>, <<"a">>, <<"b", ",", "a">>, <<"a", ",", "a">>,
     <<"[", "a", ";", "b", "]">>, <<",", " ", ",">>}
MaxListLen == 2
IdMembers ==
    {Undefined, JsNull} \cup {Str(t) : t \in IdScalars}
    \cup {List(l) : l \in UNION {[1..n -> IdScalars] : n \in 0..MaxListLen}}
IdFieldShapes ==
    {Value(m) : m \in IdMembers}
    \cup {Descriptor(r, v, l) : r \in {Undefined, Str(<<"a">>)},
                                v \in {Undefined, JsNull, Str(<<"b", ",", "a">>)},
                                l \in {Undefined, Str(<<"a">>)}}

NoIdArrays == [done |-> FALSE, asArray |-> NoArray, readAsStringArray |-> <<>>]

\* asArray(readRawBeanField(bean, key)) and readAsStringArray(bean, key)
ReadIdList ==
    /\ ~idArrays.done
    /\ idArrays' = [done |-> TRUE,
                    asArray |-> AsArray(ReadRawBeanField(idField)),
                    readAsStringArray |-> ReadAsStringArray(idField)]
    /\ UNCHANGED <<text, decoded, idLists, idField, normField, normResults>>
    /\ UNCHANGED <<clientVars, gatewayVars, brokersVars, readerVars, attachmentVars>>

(***************************************************************************)
(* The normalisers of brokersService: readAsText, readAsRawText,           *)
(* readAsRawArray, readAsNumber.  A number is [kind, neg, int, scale]: the *)
(* value int / 10^scale, negated when neg; kind "nan" is NaN.              *)
(***************************************************************************)

NotANumber == [kind |-> "nan", neg |-> FALSE, int |-> 0, scale |-> 0]

\* The number int / 10^scale with its sign, trailing zeros of the fraction
\* dropped (1.50 and 1.5 are the same number, and so are -0 and 0)
RECURSIVE Number(_, _, _)
Number(neg, int, scale) ==
    IF scale > 0 /\ int % 10 = 0 THEN Number(neg, int \div 10, scale - 1)
    ELSE [kind |-> "num", neg |-> neg /\ int # 0, int |-> int, scale |-> scale]

Zero == Number(FALSE, 0, 0)

\* The characters of s that are in keep
RECURSIVE KeepChars(_, _)
KeepChars(s, keep) ==
    IF s = <<>> THEN <<>>
    ELSE (IF s[1] \in keep THEN <<s[1]>> ELSE <<>>) \o KeepChars(Tail(s), keep)

\* s.replace(/from/g, to) for one character
ReplaceChar(s, from, to) == [i \in 1..Len(s) |-> IF s[i] = from THEN to ELSE s[i]]

\* s.lastIndexOf(c), counted from 1; 0 when c does not occur
LastIndexOf(s, c) ==
    IF \E i \in 1..Len(s) : s[i] = c
    THEN CHOOSE i \in 1..Len(s) : s[i] = c /\ \A j \in (i + 1)..Len(s) : s[j] # c
    ELSE 0

\* The decimal digits of s read as a natural number
RECURSIVE DigitsValue(_, _)
DigitsValue(s, acc) ==
    IF s = <<>> THEN acc ELSE DigitsValue(Tail(s), acc * 10 + DigitVal(s[1]))

\* Number.parseFloat(s) for s made of digits, ".", "-" and "+": an optional
\* sign, digits, an optional point and digits; what follows is ignored; NaN
\* when there is no digit
ParseFloat(s) ==
    LET signed == s # <<>> /\ s[1] \in {"-", "+"}
        body == IF signed THEN Tail(s) ELSE s
        whole == RunLength(body, DecimalDigits)
        afterWhole == SubSeq(body, whole + 1, Len(body))
        pointed == afterWhole # <<>> /\ afterWhole[1] = "."
        fraction == IF pointed THEN RunLength(Tail(afterWhole), DecimalDigits) ELSE 0
    IN  IF whole + fraction = 0 THEN NotANumber
        ELSE Number(signed /\ s[1] = "-",
                    DigitsValue(SubSeq(body, 1, whole)
                                \o (IF pointed THEN SubSeq(afterWhole, 2, fraction + 1)
                                    ELSE <<>>), 0),
                    fraction)

\* Mutant: a comma is always dropped as a thousands separator.
ParseStringNumberCommaDropped(input) ==
    LET compact == KeepChars(Trim(input), DecimalDigits \cup {",", ".", "-", "+"})
    IN  IF compact = <<>> THEN NotANumber
        ELSE ParseFloat(KeepChars(compact, DecimalDigits \cup {".", "-", "+"}))

\* parseStringNumber(input) of readAsNumber
ParseStringNumber(input) ==
    LET compact == KeepChars(Trim(input), DecimalDigits \cup {",", ".", "-", "+"})
        hasComma == Contains(compact, <<",">>)
        hasDot == Contains(compact, <<".">>)
        normalized_ ==
            IF hasComma /\ hasDot
            THEN IF LastIndexOf(compact, ",") > LastIndexOf(compact, ".")
                 THEN ReplaceChar(KeepChars(compact, DecimalDigits \cup {",", "-", "+"}),
                                  ",", ".")
                 ELSE KeepChars(compact, DecimalDigits \cup {".", "-", "+"})
            ELSE IF hasComma THEN ReplaceChar(compact, ",", ".")
            ELSE compact
    IN  IF compact = <<>> THEN NotANumber ELSE ParseFloat(normalized_)

\* The first entry of a list that parses to a finite number, NaN when none
RECURSIVE FirstFinite(_)
FirstFinite(entries) ==
    IF entries = <<>> THEN NotANumber
    ELSE IF ParseStringNumber(entries[1]).kind = "num"
    THEN ParseStringNumber(entries[1])
    ELSE FirstFinite(Tail(entries))

\* parseUnknownNumber(value) of readAsNumber, for a string, a list of
\* strings, null, undefined or an object
ParseUnknownNumber(m) ==
    IF m.t = "string" THEN ParseStringNumber(m.v[1])
    ELSE IF m.t = "list" THEN FirstFinite(m.v)
    ELSE NotANumber

\* A call that threw TypeError, a call that returned val
Threw == [ok |-> FALSE, val |-> <<>>]
Gave(val) == [ok |-> TRUE, val |-> val]

\* The first candidate that parses to a finite number, 0 when none
RECURSIVE FirstCandidate(_)
FirstCandidate(candidates) ==
    IF candidates = <<>> THEN Zero
    ELSE IF ParseUnknownNumber(candidates[1]).kind = "num"
    THEN ParseUnknownNumber(candidates[1])
    ELSE FirstCandidate(Tail(candidates))

\* brokersService.readAsNumber(bean, key), f being bean[key]
ReadAsNumber(f) ==
    LET members == IF f.t = "object" THEN <<f.raw_value, f.value, f.label>> ELSE <<>>
        read == BrokersReadFieldValue(f)
    IN  IF read = TypeError THEN Threw
        ELSE Gave(FirstCandidate(Append(members, Member(read.t, read.v))))

\* brokersService.readAsText(bean, key)
ReadAsText(f) ==
    LET read == BrokersReadFieldValue(f)
    IN  IF read = TypeError THEN Threw
        ELSE IF read.t = "string"
        THEN LET text_ == DecodeHtmlEntities(read.v[1])
             IN  IF text_.ok THEN Gave(text_.val) ELSE Threw
        ELSE IF read.t = "list" /\ read.v # <<>>
        THEN LET text_ == DecodeHtmlEntities(read.v[1])
             IN  IF text_.ok THEN Gave(text_.val) ELSE Threw
        ELSE Gave(<<>>)

\* The entries of a list of strings, or the one string unless it is blank
RawEntries(m) ==
    IF m.t = "list" THEN m.v
    ELSE IF m.t = "string" /\ Trim(m.v[1]) # <<>> THEN m.v
    ELSE <<>>

\* brokersService.readAsRawArray(bean, key)
ReadAsRawArray(f) ==
    IF f.t = "object" THEN RawEntries(Coalesce(f.raw_value, f.value))
    ELSE RawEntries(Member(f.t, f.v))

\* The shapes in which a bean can carry the string input
ShapedFields(input) ==
    {Value(Undefined), Value(JsNull), Value(Str(input)), Value(List(<<input>>)),
     Value(List(<<>>)),
     Descriptor(Str(input), Undefined, Undefined),
     Descriptor(JsNull, List(<<input>>), Undefined),
     Descriptor(Undefined, Undefined, Str(input)),
     Descriptor(Undefined, Undefined, Undefined)}

\* The strings the normalisers are applied to
MaxNumLen == 4
NumberTexts ==
    TextsUpTo({"1", "0", ",", ".", "-", " "}, MaxNumLen)
    \cup {<<"1", ".", "2", "3", "4", ",", "5", "6">>,
          <<"1", ",", "2", "3", "4", ".", "5", "6">>,
          <<"a", "b", "c">>, <<"1", "a", " ", "2", ",", "5", "e">>,
          <<"&", "#", "1", "1", "1", "4", "1", "1", "2", ";">>,
          <<"&", "a", "m", "p", ";", "1">>}

NotNormalized ==
    [done |-> FALSE, readAsText |-> Gave(<<>>), readAsRawText |-> Gave(""),
     readAsRawArray |-> Gave(<<>>), readAsNumber |-> Gave(Zero)]

\* A bean carrying `text` in one of the shapes is normalised.
Normalize(f) ==
    /\ ~normResults.done
    /\ f \in ShapedFields(text)
    /\ normField' = f
    /\ normResults' = [done |-> TRUE,
                      readAsText |-> ReadAsText(f),
                      readAsRawText |-> Gave(BrokersReadAsRawText(f)),
                      readAsRawArray |-> Gave(ReadAsRawArray(f)),
                      readAsNumber |-> ReadAsNumber(f)]
    /\ UNCHANGED <<text, decoded, idLists, idField, idArrays>>
    /\ UNCHANGED <<clientVars, gatewayVars, brokersVars, readerVars, attachmentVars>>

(***************************************************************************)
(* EfficyApiClient.toAttachment: the size of an attachment.  AttFile is    *)
(* [t, length]: undefined, null, an array of `length` bytes or a base64    *)
(* string of `length` characters; AttSize is a member holding a string.    *)
(***************************************************************************)

NoNumber == [defined |-> FALSE, val |-> 0]
SomeNumber(n) == [defined |-> TRUE, val |-> n]

\* Number.parseInt(raw, 10): leading whitespace, an optional sign, then the
\* leading decimal digits; undefined stands for NaN
JsParseInt(raw) ==
    LET unspaced == TrimLeft(raw)
        signed == unspaced # <<>> /\ unspaced[1] \in {"-", "+"}
        body == IF signed THEN Tail(unspaced) ELSE unspaced
        run == RunLength(body, DecimalDigits)
        magnitude == DigitsValue(SubSeq(body, 1, run), 0)
    IN  IF run = 0 THEN NoNumber
        ELSE SomeNumber(IF signed /\ unspaced[1] = "-" THEN -magnitude ELSE magnitude)

\* EfficyApiClient.readNumber(bean, key) for a field that is missing, a
\* string, or a descriptor of strings: a positive integer or undefined
ReadNumber(f) ==
    LET raw == ApiClientReadFieldValue(f)
    IN  IF raw.t = "string" /\ JsParseInt(raw.v[1]).defined /\ JsParseInt(raw.v[1]).val > 0
        THEN JsParseInt(raw.v[1])
        ELSE NoNumber

\* estimatedSize of toAttachment: fileValue.length, or
\* Math.floor(fileValue.length * 0.75)
EstimatedSize(file) ==
    IF file.t = "array" THEN SomeNumber(file.length)
    ELSE IF file.t = "string" /\ file.length > 0
    THEN SomeNumber((file.length * 3) \div 4)
    ELSE NoNumber

\* toAttachment(bean).size, or the TypeError of readFieldValue on a null field
ToAttachmentSize(bean) ==
    IF bean.AttFile.t = "null" \/ bean.AttSize.t = "null" THEN Threw
    ELSE LET sizeFromField == ReadNumber(bean.AttSize)
         IN  Gave(IF sizeFromField.defined THEN sizeFromField
                  ELSE EstimatedSize(bean.AttFile))

\* The attachment beans
MaxFileLen == 9
AttFiles ==
    {[t |-> "undefined", length |-> 0], [t |-> "null", length |-> 0]}
    \cup {[t |-> k, length |-> n] : k \in {"array", "string"}, n \in 0..MaxFileLen}
AttSizes ==
    {Value(Undefined), Value(Str(<<"7">>)), Value(Str(<<"0">>)),
     Value(Str(<<" ", "1", "2", "k">>)), Value(Str(<<"-", "3">>)), Value(Str(<<"x">>)),
     Descriptor(Undefined, Str(<<"5">>), Undefined)}
AttBeans == [AttFile : AttFiles, AttSize : AttSizes]

NoAttBean == [AttFile |-> [t |-> "undefined", length |-> 0], AttSize |-> Value(Undefined)]
NoAttachment == [done |-> FALSE, size |-> Gave(NoNumber)]

\* toAttachment(attBean)
ToAttachment ==
    /\ ~attachment.done
    /\ attachment' = [done |-> TRUE, size |-> ToAttachmentSize(attBean)]
    /\ UNCHANGED <<attBean, listing>>
    /\ UNCHANGED <<clientVars, gatewayVars, brokersVars, readerVars>>
    /\ UNCHANGED <<text, decoded, idLists, idField, idArrays, normField, normResults>>

(***************************************************************************)
(* BrokersService.getEnterpriseName and getPersonInfo: each action is the  *)
(* code between two awaits.  `settled` and `lastLookup` record what the    *)
(* lookups did, the caches and the requests in flight are the program's.   *)
(***************************************************************************)

\* Requests in flight at once, over both lookups and all ids
MaxInFlight == 2

\* The answer of /base/Enterprise/<id> or /base/Person/<id>: null, an object
\* without data, the bean under data, or the bean under data.bean_data
Bean(entCorpName, perFstName, perName, perFctID) ==
    [EntCorpName |-> entCorpName, PerFstName |-> perFstName,
     PerName |-> perName, PerFctID |-> perFctID]
EmptyBean == Bean(Value(Undefined), Value(Undefined), Value(Undefined), Value(Undefined))
BeanPayload(shape, bean) == [shape |-> shape, bean |-> bean]

\* readSingleBean(payload): has = FALSE stands for null
ReadSingleBean(payload) ==
    IF payload.shape \in {"data", "bean_data"}
    THEN [has |-> TRUE, bean |-> payload.bean]
    ELSE [has |-> FALSE, bean |-> EmptyBean]

\* [a, b].filter(Boolean).join(" ")
JoinNames(a, b) ==
    IF a = <<>> THEN b ELSE IF b = <<>> THEN a ELSE a \o <<" ">> \o b

\* readAsRawText gives a text that is not empty
HasRawText(f) ==
    \/ f.t = "string"
    \/ /\ f.t = "object"
       /\ LET rawValue == Coalesce(f.raw_value, f.value)
          IN  rawValue.t = "string" \/ (rawValue.t = "list" /\ rawValue.v # <<>>)

\* What a lookup does up to its await: it returns (the fixed value for an
\* empty id, the cached value) or it sends its request.
Returns(result) == [sent |-> FALSE, returned |-> TRUE, result |-> result]
Sends == [sent |-> TRUE, returned |-> FALSE, result |-> NoInfo]

\* getEnterpriseName up to its await: cached !== undefined
GetEnterpriseNameStart(cache, enterpriseId) ==
    IF enterpriseId = "" THEN Returns(NoInfo)
    ELSE IF cache[enterpriseId].has THEN Returns(cache[enterpriseId].val)
    ELSE Sends

\* getPersonInfo up to its await: a cached PersonInfo is an object, truthy
GetPersonInfoStart(cache, personId) ==
    IF personId = "" THEN Returns(NoInfo)
    ELSE IF cache[personId].has THEN Returns(cache[personId].val)
    ELSE Sends

\* The number of requests in flight
TotalInFlight ==
    LET perKind(k) == inFlight[k]["1"] + inFlight[k]["2"]
    IN  perKind("enterprise") + perKind("person")

\* A call of getEnterpriseName (toDisplayOpportunity).
GetEnterpriseName(enterpriseId) ==
    LET start == GetEnterpriseNameStart(enterpriseCache, enterpriseId)
    IN  /\ start.sent => TotalInFlight < MaxInFlight
        /\ inFlight' = IF start.sent
                       THEN [inFlight EXCEPT !["enterprise"][enterpriseId] = @ + 1]
                       ELSE inFlight
        /\ lastLookup' = [op |-> "call", kind |-> "enterprise", id |-> enterpriseId,
                          sent |-> start.sent, returned |-> start.returned,
                          result |-> start.result]
        /\ UNCHANGED <<enterpriseCache, personCache, settled>>
        /\ UNCHANGED <<referentialCache, pending, issued>>
        /\ UNCHANGED <<gatewayVars, beanVars>>

\* getEnterpriseName after its await: the name read from the bean, or "" when
\* there is no bean, is stored and returned; readAsText may throw.
EnterpriseResolved(enterpriseId, payload) ==
    /\ inFlight["enterprise"][enterpriseId] > 0
    /\ inFlight' = [inFlight EXCEPT !["enterprise"][enterpriseId] = @ - 1]
    /\ LET bean == ReadSingleBean(payload)
           name == IF bean.has THEN ReadAsText(bean.bean.EntCorpName) ELSE Gave(<<>>)
       IN  IF name.ok
           THEN /\ enterpriseCache' =
                      [enterpriseCache EXCEPT
                          ![enterpriseId] = Cached(PersonInfo(name.val, <<>>))]
                /\ settled' = [settled EXCEPT
                                  !["enterprise"][enterpriseId] =
                                      Cached(PersonInfo(name.val, <<>>))]
                /\ lastLookup' = [op |-> "resolved", kind |-> "enterprise",
                                  id |-> enterpriseId, sent |-> FALSE,
                                  returned |-> TRUE,
                                  result |-> PersonInfo(name.val, <<>>)]
           ELSE /\ UNCHANGED <<enterpriseCache, settled>>
                /\ lastLookup' = [op |-> "rejected", kind |-> "enterprise",
                                  id |-> enterpriseId, sent |-> FALSE,
                                  returned |-> FALSE, result |-> NoInfo]
    /\ UNCHANGED personCache
    /\ UNCHANGED <<referentialCache, pending, issued>>
    /\ UNCHANGED <<gatewayVars, beanVars>>

\* httpClient.get rejects: nothing is stored, the lookup rejects.
EnterpriseRejected(enterpriseId) ==
    /\ inFlight["enterprise"][enterpriseId] > 0
    /\ inFlight' = [inFlight EXCEPT !["enterprise"][enterpriseId] = @ - 1]
    /\ lastLookup' = [op |-> "rejected", kind |-> "enterprise", id |-> enterpriseId,
                      sent |-> FALSE, returned |-> FALSE, result |-> NoInfo]
    /\ UNCHANGED <<enterpriseCache, personCache, settled>>
    /\ UNCHANGED <<referentialCache, pending, issued>>
    /\ UNCHANGED <<gatewayVars, beanVars>>

\* A call of getPersonInfo (toDisplayOpportunity).
GetPersonInfo(personId) ==
    LET start == GetPersonInfoStart(personCache, personId)
    IN  /\ start.sent => TotalInFlight < MaxInFlight
        /\ inFlight' = IF start.sent
                       THEN [inFlight EXCEPT !["person"][personId] = @ + 1]
                       ELSE inFlight
        /\ lastLookup' = [op |-> "call", kind |-> "person", id |-> personId,
                          sent |-> start.sent, returned |-> start.returned,
                          result |-> start.result]
        /\ UNCHANGED <<enterpriseCache, personCache, settled>>
        /\ UNCHANGED <<referentialCache, pending, issued>>
        /\ UNCHANGED <<gatewayVars, beanVars>>

\* getPersonInfo after its await: without a bean the fixed value is returned
\* and nothing is stored; otherwise the info read from the bean is stored and
\* returned; readAsText may throw.
PersonResolved(personId, payload) ==
    /\ inFlight["person"][personId] > 0
    /\ inFlight' = [inFlight EXCEPT !["person"][personId] = @ - 1]
    /\ LET bean == ReadSingleBean(payload)
           first == ReadAsText(bean.bean.PerFstName)
           last == ReadAsText(bean.bean.PerName)
           functionId == IF HasRawText(bean.bean.PerFctID)
                         THEN BrokersReadAsRawText(bean.bean.PerFctID) ELSE <<>>
       IN  IF ~bean.has
           THEN /\ UNCHANGED personCache
                /\ settled' = [settled EXCEPT !["person"][personId] = Cached(NoInfo)]
                /\ lastLookup' = [op |-> "resolved", kind |-> "person",
                                  id |-> personId, sent |-> FALSE,
                                  returned |-> TRUE, result |-> NoInfo]
           ELSE IF first.ok /\ last.ok
           THEN LET info == PersonInfo(JoinNames(first.val, last.val), functionId)
                IN  /\ personCache' = [personCache EXCEPT ![personId] = Cached(info)]
                    /\ settled' = [settled EXCEPT !["person"][personId] = Cached(info)]
                    /\ lastLookup' = [op |-> "resolved", kind |-> "person",
                                      id |-> personId, sent |-> FALSE,
                                      returned |-> TRUE, result |-> info]
           ELSE /\ UNCHANGED <<personCache, settled>>
                /\ lastLookup' = [op |-> "rejected", kind |-> "person",
                                  id |-> personId, sent |-> FALSE,
                                  returned |-> FALSE, result |-> NoInfo]
    /\ UNCHANGED enterpriseCache
    /\ UNCHANGED <<referentialCache, pending, issued>>
    /\ UNCHANGED <<gatewayVars, beanVars>>

\* httpClient.get rejects: nothing is stored, the lookup rejects.
PersonRejected(personId) ==
    /\ inFlight["person"][personId] > 0
    /\ inFlight' = [inFlight EXCEPT !["person"][personId] = @ - 1]
    /\ lastLookup' = [op |-> "rejected", kind |-> "person", id |-> personId,
                      sent |-> FALSE, returned |-> FALSE, result |-> NoInfo]
    /\ UNCHANGED <<enterpriseCache, personCache, settled>>
    /\ UNCHANGED <<referentialCache, pending, issued>>
    /\ UNCHANGED <<gatewayVars, beanVars>>

\* What the upstream answers to /base/Enterprise/<id>
EnterprisePayloads ==
    {BeanPayload("null", EmptyBean),
     BeanPayload("nodata", EmptyBean),
     BeanPayload("data", EmptyBean),
     BeanPayload("data", [EmptyBean EXCEPT !.EntCorpName = Value(Str(<<>>))]),
     BeanPayload("bean_data", [EmptyBean EXCEPT !.EntCorpName = Value(Str(<<"A">>))]),
     BeanPayload("data",
         [EmptyBean EXCEPT
             !.EntCorpName = Descriptor(Undefined, Undefined, Str(<<"B">>))]),
     BeanPayload("data", [EmptyBean EXCEPT !.EntCorpName = Value(JsNull)])}

\* What the upstream answers to /base/Person/<id>
PersonPayloads ==
    {BeanPayload("null", EmptyBean),
     BeanPayload("nodata", EmptyBean),
     BeanPayload("data", EmptyBean),
     BeanPayload("data",
         Bean(Value(Undefined), Value(Str(<<"A">>)), Value(Str(<<"B">>)),
              Value(Str(<<"7">>)))),
     BeanPayload("bean_data",
         Bean(Value(Undefined), Value(Undefined), Value(Str(<<"B">>)),
              Descriptor(Str(<<"7">>), Undefined, Str(<<"F">>)))),
     BeanPayload("data",
         Bean(Value(Undefined), Value(JsNull), Value(Str(<<"B">>)),
              Value(Undefined)))}

(***************************************************************************)
(* DemandesService.listDemandes: the EfficyDemande made of a Demande bean. *)
(* The strings of the bean are character sequences.                        *)
(***************************************************************************)

\* field.join(", ")
RECURSIVE JoinComma(_)
JoinComma(elements) ==
    IF elements = <<>> THEN <<>>
    ELSE IF Len(elements) = 1 THEN elements[1]
    ELSE elements[1] \o <<",", " ">> \o JoinComma(Tail(elements))

\* demandesService.readBeanField(bean, key), f being bean[key]
DemandesReadBeanField(f) ==
    IF f.t \in {"string", "list"} THEN Member(f.t, f.v)
    ELSE IF f.t \in {"undefined", "null"} THEN Undefined
    ELSE Coalesce(f.label, Coalesce(f.raw_value, f.value))

\* demandesService.readAsText(bean, key)
DemandesReadAsText(f) ==
    LET read == DemandesReadBeanField(f)
    IN  IF read.t = "list" THEN JoinComma(read.v)
        ELSE IF read.t = "string" THEN read.v[1]
        ELSE <<>>

\* demandesService.readAsRawText(bean, key)
DemandesReadAsRawText(f) ==
    IF f.t = "string" THEN f.v[1]
    ELSE IF f.t # "object" THEN <<>>
    ELSE LET rawValue == Coalesce(f.raw_value, f.value)
         IN  IF rawValue.t = "list"
             THEN (IF rawValue.v = <<>> THEN <<>> ELSE rawValue.v[1])
             ELSE IF rawValue.t = "string" THEN rawValue.v[1]
             ELSE <<>>

\* A Demande bean of the list
DemandeBean(token, id, status, description, crDt, priority, attId) ==
    [DmdToken |-> token, DmdID |-> id, DmdStatus |-> status,
     DmdDescription |-> description, DmdCrDt |-> crDt, DmdPriority |-> priority,
     DmdAttID |-> attId]

NoDemande ==
    [done |-> FALSE, rejected |-> FALSE, id |-> <<>>, dmdId |-> <<>>,
     description |-> <<>>, status |-> <<>>, dateCreated |-> <<>>,
     priority |-> <<>>, attIds |-> NoArray]

\* The EfficyDemande of a bean; it is not made when decodeHtmlEntities throws
ToDemande(bean) ==
    LET dmdId == DemandesReadAsRawText(bean.DmdID)
        token == DemandesReadAsText(bean.DmdToken)
        description == DecodeHtmlEntities(DemandesReadAsText(bean.DmdDescription))
    IN  IF ~description.ok THEN [NoDemande EXCEPT !.done = TRUE, !.rejected = TRUE]
        ELSE [done |-> TRUE, rejected |-> FALSE,
              id |-> IF token # <<>> THEN token ELSE dmdId,
              dmdId |-> dmdId,
              description |-> description.val,
              status |-> DemandesReadAsText(bean.DmdStatus),
              dateCreated |-> DemandesReadAsText(bean.DmdCrDt),
              priority |-> DemandesReadAsText(bean.DmdPriority),
              attIds |-> AsArray(ReadRawBeanField(bean.DmdAttID))]

\* listDemandes for one bean of the list: the actor and qualification names
\* are awaited first; when one of the two lookups rejects, so does the call.
ListDemandes(namesResolved) ==
    /\ ~demande.done
    /\ demande' = IF namesResolved THEN ToDemande(dmdBean)
                  ELSE [NoDemande EXCEPT !.done = TRUE, !.rejected = TRUE]
    /\ UNCHANGED <<dmdBean, linking, creation, opportunityForm, detailsView>>
    /\ UNCHANGED <<gatewayVars, brokersVars, readerVars, textVars>>

\* The members of a Demande field, and the fields made of them
DemandeRawValues ==
    {Undefined, JsNull, Str(<<>>), Str(<<"r">>), List(<<<<"r">>, <<"s">>>>)}
DemandeValues == {Undefined, JsNull, Str(<<"v">>)}
DemandeLabels ==
    {Undefined, JsNull, Str(<<>>), Str(<<"l">>), Str(<<"&", "l", "t", ";">>),
     Str(<<"&", "#", "1", "1", "1", "4", "1", "1", "2", ";">>)}
DemandeFieldShapes ==
    {Value(Undefined), Value(JsNull), Value(Str(<<>>)), Value(Str(<<"t">>)),
     Value(List(<<>>)), Value(List(<<<<"a">>, <<"b">>>>))}
    \cup {Descriptor(r, v, l) :
            r \in DemandeRawValues, v \in DemandeValues, l \in DemandeLabels}

\* The beans of the list: the display fields in one shape, the id in another
DemandeBeans ==
    {DemandeBean(f, g, f, f, f, f, g) :
        f \in DemandeFieldShapes,
        g \in {Value(Undefined), Value(Str(<<"7">>)),
               Descriptor(Str(<<"7">>), Undefined, Str(<<"l">>))}}

NoDemandeBean ==
    DemandeBean(Value(Undefined), Value(Undefined), Value(Undefined),
                Value(Undefined), Value(Undefined), Value(Undefined),
                Value(Undefined))

(***************************************************************************)
(* Linking an attachment to a demande: DocumentsService                    *)
(* .uploadAndAttachDocument (target "demande") and the link step of        *)
(* DemandesService.createDemandeForCurrentUser.  Each operation uploads    *)
(* its file, reads DmdAttID, and writes the merged list; the upstream      *)
(* handles one request at a time, the operations run in any interleaving.  *)
(***************************************************************************)

\* Array.from(new Set(list)): the entries of list without the repetitions,
\* in the order of their first occurrence
RECURSIVE KeepFirstOccurrences(_, _)
KeepFirstOccurrences(list, seen) ==
    IF list = <<>> THEN <<>>
    ELSE IF list[1] \in seen THEN KeepFirstOccurrences(Tail(list), seen)
    ELSE <<list[1]>> \o KeepFirstOccurrences(Tail(list), seen \cup {list[1]})

\* Link operations on the one demande
MaxLinks == 2

\* The AttID the upstream gives to the attachment an operation uploads
UploadedIds == <<<<"a">>, <<"b">>, <<"c">>, <<"d">>>>

NoLink == [pc |-> "idle", service |-> "none", attachmentId |-> <<>>, merged |-> <<>>]

NotLinking ==
    [exists |-> FALSE, DmdAttID |-> <<>>, before |-> <<>>,
     ops |-> [o \in 1..MaxLinks |-> NoLink]]

\* EfficyApiClient.getDemandeAttachmentIds: readAsStringArray of the list
\* the upstream holds (normalizeStringArray)
GetDemandeAttachmentIds(dmdAttID) == TrimmedNonEmpty(dmdAttID)

\* The list an operation writes: the ids read and its own, without
\* repetitions; uploadAndAttachDocument splits the ids read
MergedAttachmentIds(service, existing, attachmentId) ==
    IF service = "documents"
    THEN KeepFirstOccurrences(Append(FlatMapSplitIds(existing), attachmentId), {})
    ELSE KeepFirstOccurrences(Append(existing, attachmentId), {})

\* The demande as it stands before the operations: the ids linked so far.
DemandeLinkedBefore(ids_) ==
    /\ ~linking.exists
    /\ linking' = [linking EXCEPT !.exists = TRUE, !.DmdAttID = ids_, !.before = ids_]
    /\ UNCHANGED <<dmdBean, demande, creation, opportunityForm, detailsView>>
    /\ UNCHANGED <<gatewayVars, brokersVars, readerVars, textVars>>

\* An operation starts: createAttachment posts the file.
StartLink(o, service) ==
    /\ linking.exists
    /\ linking.ops[o].pc = "idle"
    /\ linking' = [linking EXCEPT !.ops[o] = [NoLink EXCEPT !.pc = "upload",
                                                          !.service = service]]
    /\ UNCHANGED <<dmdBean, demande, creation, opportunityForm, detailsView>>
    /\ UNCHANGED <<gatewayVars, brokersVars, readerVars, textVars>>

\* createAttachment resolves: with an id the operation asks for DmdAttID,
\* without one or on a rejection it throws.
Uploaded(o, ok) ==
    /\ linking.ops[o].pc = "upload"
    /\ linking' = IF ok
                  THEN [linking EXCEPT !.ops[o].pc = "read",
                                       !.ops[o].attachmentId = UploadedIds[o]]
                  ELSE [linking EXCEPT !.ops[o].pc = "failed"]
    /\ UNCHANGED <<dmdBean, demande, creation, opportunityForm, detailsView>>
    /\ UNCHANGED <<gatewayVars, brokersVars, readerVars, textVars>>

\* getDemandeAttachmentIds resolves with the list the upstream holds now;
\* the merged list is put.  On a rejection the operation throws.
ReadAnswered(o, ok) ==
    /\ linking.ops[o].pc = "read"
    /\ linking' =
          IF ok
          THEN [linking EXCEPT
                   !.ops[o].pc = "write",
                   !.ops[o].merged =
                       MergedAttachmentIds(linking.ops[o].service,
                                           GetDemandeAttachmentIds(linking.DmdAttID),
                                           linking.ops[o].attachmentId)]
          ELSE [linking EXCEPT !.ops[o].pc = "failed"]
    /\ UNCHANGED <<dmdBean, demande, creation, opportunityForm, detailsView>>
    /\ UNCHANGED <<gatewayVars, brokersVars, readerVars, textVars>>

\* updateDemandeAttachmentIds: the upstream stores the list put and answers;
\* on a rejection nothing is stored and the operation throws.
WriteApplied(o, ok) ==
    /\ linking.ops[o].pc = "write"
    /\ linking' =
          IF ok
          THEN [linking EXCEPT !.ops[o].pc = "done",
                               !.DmdAttID = linking.ops[o].merged]
          ELSE [linking EXCEPT !.ops[o].pc = "failed"]
    /\ UNCHANGED <<dmdBean, demande, creation, opportunityForm, detailsView>>
    /\ UNCHANGED <<gatewayVars, brokersVars, readerVars, textVars>>

(***************************************************************************)
(* DemandesService.createDemandeForCurrentUser: each action is the code    *)
(* between two awaits.  `creation` holds the input, the locals, the        *)
(* requests sent and the answers received, in order, whether the upstream  *)
(* holds the created demande, and how the call ended.                      *)
(***************************************************************************)

\* EfficyApiClient.readStructuredFieldValue(source, fieldName), f being
\* source[fieldName] (undefined when source is no object)
ReadStructuredFieldValue(f) ==
    LET trimmed(m) == IF m.t = "string" THEN Trim(m.v[1]) ELSE <<>>
    IN  IF f.t = "string" THEN Trim(f.v[1])
        ELSE IF f.t # "object" THEN <<>>
        ELSE IF trimmed(f.raw_value) # <<>> THEN trimmed(f.raw_value)
        ELSE IF trimmed(f.value) # <<>> THEN trimmed(f.value)
        ELSE trimmed(f.label)

\* EfficyApiClient.extractFirstString over the values found at the paths
RECURSIVE ExtractFirstString(_)
ExtractFirstString(found) ==
    IF found = <<>> THEN <<>>
    ELSE IF found[1].t = "string" /\ Trim(found[1].v[1]) # <<>>
    THEN Trim(found[1].v[1])
    ELSE ExtractFirstString(Tail(found))

\* The answer of POST /base/Demande: data.bean_data.DmdID, data.DmdID, DmdID,
\* data.bean_display and bean_display, each possibly missing
CreateResponse(beanDataDmdID, dataDmdID, topDmdID, dataDisplay, topDisplay) ==
    [beanDataDmdID |-> beanDataDmdID, dataDmdID |-> dataDmdID,
     topDmdID |-> topDmdID, dataDisplay |-> dataDisplay, topDisplay |-> topDisplay]

\* EfficyApiClient.extractCreatedDemandeId(response)
ExtractCreatedDemandeId(r) ==
    IF ReadStructuredFieldValue(r.beanDataDmdID) # <<>>
    THEN ReadStructuredFieldValue(r.beanDataDmdID)
    ELSE IF ReadStructuredFieldValue(r.dataDmdID) # <<>>
    THEN ReadStructuredFieldValue(r.dataDmdID)
    ELSE ExtractFirstString(<<Member(r.dataDmdID.t, r.dataDmdID.v), r.topDmdID,
                              r.dataDisplay, r.topDisplay>>)

\* Mutant: the description is tested as typed, not trimmed.
CheckCreateInputUntrimmed(personId, description, qualificationId) ==
    IF personId = <<>> THEN "Unable to resolve logged user Efficy person"
    ELSE IF description = <<>> \/ qualificationId = <<>>
    THEN "Missing required demande fields"
    ELSE "ok"

\* The two tests before the payload is built: the error thrown, or "ok"
CheckCreateInput(personId, description, qualificationId) ==
    IF personId = <<>> THEN "Unable to resolve logged user Efficy person"
    ELSE IF Trim(description) = <<>> \/ qualificationId = <<>>
    THEN "Missing required demande fields"
    ELSE "ok"

CreateDemandeInput(qualificationId, description, hasFile) ==
    [qualificationId |-> qualificationId, description |-> description,
     attachmentFile |-> hasFile]

NotCreating ==
    [pc |-> "idle", input |-> CreateDemandeInput(<<>>, <<>>, FALSE),
     requests |-> <<>>, answers |-> <<>>, created |-> FALSE,
     personId |-> <<>>, posted |-> <<>>, demandeId |-> <<>>,
     attachmentId |-> <<>>, merged |-> <<>>, outcome |-> "none"]

\* The call ends: it resolves ("resolved") or rejects with the message
Ended(c, outcome) == [c EXCEPT !.pc = "ended", !.outcome = outcome]

\* A request is sent and awaited
Awaiting(c, request_) == [c EXCEPT !.pc = request_, !.requests = Append(@, request_)]

\* The answer to the request awaited is received
Answered(c, answer) == [c EXCEPT !.answers = Append(@, answer)]

\* createDemandeForCurrentUser is called: getCurrentUserPersonId is awaited.
CreateDemandeForCurrentUser(input) ==
    /\ creation.pc = "idle"
    /\ creation' = Awaiting([NotCreating EXCEPT !.input = input], "person")
    /\ UNCHANGED <<dmdBean, demande, linking, opportunityForm, detailsView>>
    /\ UNCHANGED <<gatewayVars, brokersVars, readerVars, textVars>>

\* getCurrentUserPersonId resolves with an id or "", or rejects: the input
\* is tested and the Demande is posted.
CreatePersonAnswered(ok, personId) ==
    /\ creation.pc = "person"
    /\ LET c == Answered(creation, IF ok THEN "ok" ELSE "rejected")
           checked == CheckCreateInput(personId, c.input.description,
                                       c.input.qualificationId)
       IN  creation' =
             IF ~ok THEN Ended(c, "http error")
             ELSE IF checked # "ok" THEN Ended(c, checked)
             ELSE Awaiting([c EXCEPT !.personId = personId,
                                     !.posted = Trim(c.input.description)], "post")
    /\ UNCHANGED <<dmdBean, demande, linking, opportunityForm, detailsView>>
    /\ UNCHANGED <<gatewayVars, brokersVars, readerVars, textVars>>

\* createDemande resolves with the upstream's answer, the demande created,
\* or rejects: without a file the call is over, with one the id of the
\* demande is extracted and the file uploaded.
CreatePostAnswered(ok, createResponse) ==
    /\ creation.pc = "post"
    /\ LET c == Answered(creation, IF ok THEN "ok" ELSE "rejected")
           demandeId == ExtractCreatedDemandeId(createResponse)
       IN  creation' =
             IF ~ok THEN Ended(c, "http error")
             ELSE IF ~c.input.attachmentFile
             THEN Ended([c EXCEPT !.created = TRUE], "resolved")
             ELSE IF demandeId = <<>>
             THEN Ended([c EXCEPT !.created = TRUE],
                        "demandes.create.errors.attachMissingDemande")
             ELSE Awaiting([c EXCEPT !.created = TRUE, !.demandeId = demandeId],
                           "upload")
    /\ UNCHANGED <<dmdBean, demande, linking, opportunityForm, detailsView>>
    /\ UNCHANGED <<gatewayVars, brokersVars, readerVars, textVars>>

\* createAttachment resolves with an id or "", or rejects.
CreateUploadAnswered(ok, attachmentId) ==
    /\ creation.pc = "upload"
    /\ LET c == Answered(creation, IF ok THEN "ok" ELSE "rejected")
       IN  creation' =
             IF ~ok \/ attachmentId = <<>>
             THEN Ended(c, "demandes.create.errors.attachUpload")
             ELSE Awaiting([c EXCEPT !.attachmentId = attachmentId], "read")
    /\ UNCHANGED <<dmdBean, demande, linking, opportunityForm, detailsView>>
    /\ UNCHANGED <<gatewayVars, brokersVars, readerVars, textVars>>

\* getDemandeAttachmentIds resolves with the ids linked, or rejects.
CreateReadAnswered(ok, existing) ==
    /\ creation.pc = "read"
    /\ LET c == Answered(creation, IF ok THEN "ok" ELSE "rejected")
       IN  creation' =
             IF ~ok THEN Ended(c, "demandes.create.errors.attachLink")
             ELSE Awaiting([c EXCEPT !.merged =
                               MergedAttachmentIds("demandes",
                                   GetDemandeAttachmentIds(existing),
                                   c.attachmentId)], "write")
    /\ UNCHANGED <<dmdBean, demande, linking, opportunityForm, detailsView>>
    /\ UNCHANGED <<gatewayVars, brokersVars, readerVars, textVars>>

\* updateDemandeAttachmentIds resolves or rejects.
CreateWriteAnswered(ok) ==
    /\ creation.pc = "write"
    /\ LET c == Answered(creation, IF ok THEN "ok" ELSE "rejected")
       IN  creation' = IF ok THEN Ended(c, "resolved")
                       ELSE Ended(c, "demandes.create.errors.attachLink")
    /\ UNCHANGED <<dmdBean, demande, linking, opportunityForm, detailsView>>
    /\ UNCHANGED <<gatewayVars, brokersVars, readerVars, textVars>>

\* What the form hands over, and what the upstream answers
CreateDemandeInputs ==
    {CreateDemandeInput(q, d, f) :
        q \in {<<>>, <<"q">>},
        d \in {<<>>, <<" ">>, <<"d">>, <<" ", "d", " ">>},
        f \in BOOLEAN}
CreateResponses ==
    {CreateResponse(Value(Undefined), Value(Undefined), Undefined, Undefined, Undefined),
     CreateResponse(Value(Str(<<"7">>)), Value(Undefined), Undefined, Undefined, Undefined),
     CreateResponse(Descriptor(Str(<<" ">>), Str(<<"8">>), Undefined),
                    Value(Str(<<"9">>)), Undefined, Undefined, Undefined),
     CreateResponse(Value(List(<<<<"7">>>>)), Value(Str(<<" ", "9">>)),
                    Undefined, Undefined, Undefined),
     CreateResponse(Value(Undefined), Value(Undefined), Str(<<" ">>),
                    Undefined, Str(<<"5">>)),
     CreateResponse(Value(JsNull), Descriptor(JsNull, Undefined, Str(<<>>)),
                    JsNull, Str(<<>>), Undefined)}

(***************************************************************************)
(* BrokerNewOpportunity: the enterprise and person selects.  `form` is the *)
(* enterpriseId and personId of the form state, `persons` the options of   *)
(* the person select, each with the enterprise the upstream holds it       *)
(* under, `fetches` the fetchPersonsByEnterprise calls not yet settled     *)
(* with the `active` flag of the effect run that made them, and            *)
(* `effectDue` whether a render changed form.enterpriseId and its effect   *)
(* has not run yet.                                                        *)
(***************************************************************************)

MaxFetches == 2

Enterprises == {"A", "B"}

BrokerPerson(id, enterpriseId) == [id |-> id, enterpriseId |-> enterpriseId]

\* The persons the upstream holds under an enterprise
PersonsOfEnterprise(enterpriseId) ==
    IF enterpriseId = "A" THEN <<BrokerPerson("a1", "A")>>
    ELSE IF enterpriseId = "B"
    THEN <<BrokerPerson("b1", "B"), BrokerPerson("b2", "B")>>
    ELSE <<>>

\* useState initial values, after the effect of the first render
OpportunityFormMounted ==
    [form |-> [enterpriseId |-> "", personId |-> ""], persons |-> <<>>,
     fetches |-> <<>>, effectDue |-> FALSE]

\* loadPersons after its await: the result is set unless the effect was
\* cleaned up
ApplyPersons(o, k, nextPersons) ==
    IF ~o.fetches[k].active THEN o
    ELSE [o EXCEPT !.persons = nextPersons]

\* The sequence without its k-th element
WithoutAt(seq, k) == SubSeq(seq, 1, k - 1) \o SubSeq(seq, k + 1, Len(seq))

\* updateField("enterpriseId", value): the enterprise is set and the person
\* cleared; the persons effect is due when the enterprise changed.
UpdateEnterprise(value) ==
    /\ ~opportunityForm.effectDue
    /\ Len(opportunityForm.fetches) < MaxFetches
    /\ opportunityForm' =
          [opportunityForm EXCEPT
              !.form = [enterpriseId |-> value, personId |-> ""],
              !.effectDue = (value # opportunityForm.form.enterpriseId)]
    /\ UNCHANGED <<dmdBean, demande, linking, creation, detailsView>>
    /\ UNCHANGED <<gatewayVars, brokersVars, readerVars, textVars>>

\* updateField("personId", value), value being an option of the select
UpdatePerson(value) ==
    /\ ~opportunityForm.effectDue
    /\ \/ value = ""
       \/ \E k \in 1..Len(opportunityForm.persons) :
             opportunityForm.persons[k].id = value
    /\ value # opportunityForm.form.personId
    /\ opportunityForm' = [opportunityForm EXCEPT !.form.personId = value]
    /\ UNCHANGED <<dmdBean, demande, linking, creation, detailsView>>
    /\ UNCHANGED <<gatewayVars, brokersVars, readerVars, textVars>>

\* The persons effect after a render with a new form.enterpriseId: the
\* cleanup of the previous run clears its flag; then the persons are
\* emptied (no enterprise) or fetched.
PersonsEffect ==
    /\ opportunityForm.effectDue
    /\ LET cleaned == [k \in 1..Len(opportunityForm.fetches) |->
                          [opportunityForm.fetches[k] EXCEPT !.active = FALSE]]
           enterpriseId == opportunityForm.form.enterpriseId
       IN  opportunityForm' =
             IF enterpriseId = ""
             THEN [opportunityForm EXCEPT
                      !.persons = <<>>, !.form.personId = "",
                      !.fetches = cleaned, !.effectDue = FALSE]
             ELSE [opportunityForm EXCEPT
                      !.fetches = Append(cleaned, [enterpriseId |-> enterpriseId,
                                                   active |-> TRUE]),
                      !.effectDue = FALSE]
    /\ UNCHANGED <<dmdBean, demande, linking, creation, detailsView>>
    /\ UNCHANGED <<gatewayVars, brokersVars, readerVars, textVars>>

\* fetchPersonsByEnterprise of the k-th fetch resolves with the persons of
\* its enterprise.
PersonsResolved(k) ==
    /\ k \in 1..Len(opportunityForm.fetches)
    /\ LET applied == ApplyPersons(opportunityForm, k,
               PersonsOfEnterprise(opportunityForm.fetches[k].enterpriseId))
       IN  opportunityForm' =
             [applied EXCEPT !.fetches = WithoutAt(opportunityForm.fetches, k)]
    /\ UNCHANGED <<dmdBean, demande, linking, creation, detailsView>>
    /\ UNCHANGED <<gatewayVars, brokersVars, readerVars, textVars>>

\* fetchPersonsByEnterprise of the k-th fetch rejects.
PersonsRejected(k) ==
    /\ k \in 1..Len(opportunityForm.fetches)
    /\ LET applied == ApplyPersons(opportunityForm, k, <<>>)
       IN  opportunityForm' =
             [applied EXCEPT !.fetches = WithoutAt(opportunityForm.fetches, k)]
    /\ UNCHANGED <<dmdBean, demande, linking, creation, detailsView>>
    /\ UNCHANGED <<gatewayVars, brokersVars, readerVars, textVars>>

(***************************************************************************)
(* DemandesListIsland: the details view.  `selectedDemande` is the demande *)
(* shown ("" for null), `detailAttachments` the attachments shown, each    *)
(* with the demande it is linked to, `opens` the openDemandeDetails calls  *)
(* waiting at one of their two awaits.  Both awaited calls always resolve: *)
(* resolveDemandeAttachmentIds catches the failure of its read and         *)
(* listDemandeAttachments those of its requests.                           *)
(***************************************************************************)

MaxOpens == 2

ListedDemandes == {"d1", "d2", "d3"}

DemandeAttachment(id, demandeId) == [id |-> id, demande |-> demandeId]

\* The attachments the upstream holds for a demande: d1 has one, d2 none,
\* d3 two
AttachmentsOfDemande(demandeId) ==
    IF demandeId = "d1" THEN <<DemandeAttachment("f1", "d1")>>
    ELSE IF demandeId = "d3"
    THEN <<DemandeAttachment("f2", "d3"), DemandeAttachment("f3", "d3")>>
    ELSE <<>>

DetailsClosed ==
    [selectedDemande |-> "", detailState |-> "idle", detailErrorMessage |-> "",
     detailAttachments |-> <<>>, opens |-> <<>>]

\* openDemandeDetails(demande) up to its first await.  The button is part
\* of the list, which is rendered only while no demande is selected.
OpenDemandeDetails(demandeId) ==
    /\ detailsView.selectedDemande = ""
    /\ Len(detailsView.opens) < MaxOpens
    /\ detailsView' =
          [detailsView EXCEPT
              !.selectedDemande = demandeId, !.detailAttachments = <<>>,
              !.detailErrorMessage = "", !.detailState = "loading",
              !.opens = Append(@, [demande |-> demandeId, awaiting |-> "ids"])]
    /\ UNCHANGED <<dmdBean, demande, linking, creation, opportunityForm>>
    /\ UNCHANGED <<gatewayVars, brokersVars, readerVars, textVars>>

\* closeDemandeDetails(): the back button of the details view
CloseDemandeDetails ==
    /\ detailsView.selectedDemande # ""
    /\ detailsView' =
          [detailsView EXCEPT
              !.selectedDemande = "", !.detailAttachments = <<>>,
              !.detailErrorMessage = "", !.detailState = "idle"]
    /\ UNCHANGED <<dmdBean, demande, linking, creation, opportunityForm>>
    /\ UNCHANGED <<gatewayVars, brokersVars, readerVars, textVars>>

\* resolveDemandeAttachmentIds of the k-th open resolves: with no id the
\* state is "loaded" and the call over, else listDemandeAttachments is
\* awaited.
AttachmentIdsResolved(k) ==
    /\ k \in 1..Len(detailsView.opens)
    /\ detailsView.opens[k].awaiting = "ids"
    /\ detailsView' =
          IF AttachmentsOfDemande(detailsView.opens[k].demande) = <<>>
          THEN [detailsView EXCEPT !.detailState = "loaded",
                                   !.opens = WithoutAt(@, k)]
          ELSE [detailsView EXCEPT !.opens[k].awaiting = "list"]
    /\ UNCHANGED <<dmdBean, demande, linking, creation, opportunityForm>>
    /\ UNCHANGED <<gatewayVars, brokersVars, readerVars, textVars>>

\* listDemandeAttachments of the k-th open resolves: the attachments and
\* the state are set.
AttachmentsListed(k) ==
    /\ k \in 1..Len(detailsView.opens)
    /\ detailsView.opens[k].awaiting = "list"
    /\ detailsView' =
          [detailsView EXCEPT
              !.detailAttachments = AttachmentsOfDemande(detailsView.opens[k].demande),
              !.detailState = "loaded",
              !.opens = WithoutAt(@, k)]
    /\ UNCHANGED <<dmdBean, demande, linking, creation, opportunityForm>>
    /\ UNCHANGED <<gatewayVars, brokersVars, readerVars, textVars>>

\* The client-side parts at rest
ClientConstructed ==
    /\ dmdBean = NoDemandeBean
    /\ demande = NoDemande
    /\ linking = NotLinking
    /\ creation = NotCreating
    /\ opportunityForm = OpportunityFormMounted
    /\ detailsView = DetailsClosed
    /\ creation = NotCreating

(***************************************************************************)
(* Attachment listing: DemandesService.listDemandeAttachments and          *)
(* DocumentsService.listAttachmentsByIds.  The loop runs one id at a time  *)
(* and is suspended at each await; `listing` holds its locals, where it is *)
(* waiting (pc), and the log of what the upstream answered per id.         *)
(***************************************************************************)

\* An attachment an upstream call returned for id
Attachment(id, source, k) == [id |-> id, source |-> source, k |-> k]

\* What listAttachmentsById(id) resolves to: n rows
Rows(id, n) == [k \in 1..n |-> Attachment(id, "list", k)]

\* normalizedIds of listDemandeAttachments; listAttachmentsByIds takes the
\* ids as they are
NormalizeIds(service, attachmentIds) ==
    IF service = "demandes"
    THEN KeepFirstOccurrences(FlatMapSplitIds(attachmentIds), {})
    ELSE attachmentIds

\* if (!id) continue: the index of the next id that is not empty, from i on;
\* Len(ids) + 1 when there is none
RECURSIVE SkipEmpty(_, _)
SkipEmpty(ids_, i) ==
    IF i > Len(ids_) THEN i
    ELSE IF ids_[i] = <<>> THEN SkipEmpty(ids_, i + 1)
    ELSE i

\* The loop goes on with the id after the current one: the next lookup is
\* sent, or the attachments are returned
Continue(l) ==
    LET next == SkipEmpty(l.ids, l.i + 1)
    IN  [l EXCEPT !.i = next,
                  !.pc = IF next > Len(l.ids) THEN "done" ELSE "list"]

\* Mutant: without the try block a failed lookup rejects the whole call.
CaughtRethrown(l) == [l EXCEPT !.pc = "rejected"]

\* catch { }: the failure of the current id is dropped
Caught(l) == Continue(l)

NotListing ==
    [service |-> "none", ids |-> <<>>, i |-> 1, pc |-> "idle",
     attachments |-> <<>>, log |-> <<>>]

\* What the upstream did for the current id is recorded
Logged(l, list, direct) ==
    [l EXCEPT !.log = Append(@, [id |-> l.ids[l.i], list |-> list, direct |-> direct])]

\* The call starts: the ids are normalised, the first lookup is sent.
StartListing(service, attachmentIds) ==
    /\ listing.pc = "idle"
    /\ LET ids_ == NormalizeIds(service, attachmentIds)
           first == SkipEmpty(ids_, 1)
       IN  listing' = [service |-> service, ids |-> ids_, i |-> first,
                       pc |-> IF first > Len(ids_) THEN "done" ELSE "list",
                       attachments |-> <<>>, log |-> <<>>]
    /\ UNCHANGED <<attBean, attachment>>
    /\ UNCHANGED <<clientVars, gatewayVars, brokersVars, readerVars>>
    /\ UNCHANGED <<text, decoded, idLists, idField, idArrays, normField, normResults>>

\* listAttachmentsById(id) resolves with n rows.
ListResolved(n) ==
    /\ listing.pc = "list"
    /\ listing' =
          IF n > 0
          THEN Continue([Logged(listing, n, "none") EXCEPT
                            !.attachments = @ \o Rows(listing.ids[listing.i], n)])
          ELSE [listing EXCEPT !.pc = "direct"]
    /\ UNCHANGED <<attBean, attachment>>
    /\ UNCHANGED <<clientVars, gatewayVars, brokersVars, readerVars>>
    /\ UNCHANGED <<text, decoded, idLists, idField, idArrays, normField, normResults>>

\* listAttachmentsById(id) rejects.
ListRejected ==
    /\ listing.pc = "list"
    /\ listing' = Caught(Logged(listing, -1, "none"))
    /\ UNCHANGED <<attBean, attachment>>
    /\ UNCHANGED <<clientVars, gatewayVars, brokersVars, readerVars>>
    /\ UNCHANGED <<text, decoded, idLists, idField, idArrays, normField, normResults>>

\* getAttachmentContent(id) resolves with an attachment or with null.
DirectResolved(found) ==
    /\ listing.pc = "direct"
    /\ listing' =
          IF found
          THEN Continue([Logged(listing, 0, "found") EXCEPT
                            !.attachments =
                                Append(@, Attachment(listing.ids[listing.i], "direct", 1))])
          ELSE Continue(Logged(listing, 0, "null"))
    /\ UNCHANGED <<attBean, attachment>>
    /\ UNCHANGED <<clientVars, gatewayVars, brokersVars, readerVars>>
    /\ UNCHANGED <<text, decoded, idLists, idField, idArrays, normField, normResults>>

\* getAttachmentContent(id) rejects.
DirectRejected ==
    /\ listing.pc = "direct"
    /\ listing' = Caught(Logged(listing, 0, "failed"))
    /\ UNCHANGED <<attBean, attachment>>
    /\ UNCHANGED <<clientVars, gatewayVars, brokersVars, readerVars>>
    /\ UNCHANGED <<text, decoded, idLists, idField, idArrays, normField, normResults>>

\* The ids a call is given
MaxIds == 3
MaxListRows == 2
AttachmentIds == {<<>>, <<"a">>, <<"b">>, <<"a", ",", "b">>}
AttachmentIdLists == UNION {[1..n -> AttachmentIds] : n \in 0..MaxIds}

(***************************************************************************)
(* Inputs of the gateway: configuration properties, requests, upstream     *)
(* answers.                                                                *)
(***************************************************************************)

\* The longest proxy path
MaxPathLen == 3

TokenProperties == {Null, <<" ">>, <<" ", "t", " ">>}
MaxPageSizeProperties == {Null, <<"0">>, <<"x">>, <<" ", "5">>}
ForwardProperties == {Null, <<"n", "o">>, <<"T", "r", "u", "e">>}

Properties ==
    [token : TokenProperties, maxPageSize : MaxPageSizeProperties,
     forward : ForwardProperties]

\* Authorization header of the caller: none, blank, a value to be trimmed
AuthHeaders == {Null, <<" ">>, <<" ", "c">>}

\* X-User-Email header of the caller: none, blank, well-formed, malformed,
\* well-formed with a filter metacharacter
HeaderEmails ==
    {Null, <<" ">>, <<"b", "@", "a", ".", "a", " ">>, <<"b", "@", "a">>,
     <<"]", "@", "a", ".", "a">>}

\* j:email of the session user: none, blank, well-formed, malformed
SessionEmails ==
    {Null, <<" ">>, <<" ", "a", "@", "a", ".", "a">>, <<"a", "@">>}

PageSizeParams ==
    {Null, <<>>, <<"0">>, <<"-", "3">>, <<"x">>, <<"3">>, <<"+", "7">>,
     <<" ", "5">>, <<"2", "0">>, <<"1", "0", "1">>,
     <<"2", "1", "4", "7", "4", "8", "3", "6", "4", "7">>,
     <<"2", "1", "4", "7", "4", "8", "3", "6", "4", "8">>,
     <<"-", "2", "1", "4", "7", "4", "8", "3", "6", "4", "9">>}

Methods == {"GET", "POST", "PUT", "DELETE", "PATCH"}

Paths == TextsUpTo({".", "/", "a"}, MaxPathLen)

Req(route, method, resourceType, path, pageSize, authorization, xUserEmail, sessionEmail) ==
    [route |-> route, method |-> method, resourceType |-> resourceType,
     path |-> path, body |-> <<"x">>, pageSize |-> pageSize,
     authorization |-> authorization, xUserEmail |-> xUserEmail,
     sessionEmail |-> sessionEmail]

NoRequest == Req("", "", "", Null, Null, Null, Null, Null)

\* The requests served.  The headers and the routing inputs (page size,
\* method, resource type, path) are varied one family at a time.
Requests ==
    {Req("/health", m, "", Null, Null, Null, Null, Null) : m \in {"GET", "POST"}}
    \cup {Req("/unknown", "GET", "", Null, Null, Null, Null, Null)}
    \cup {Req("/me/demandes", "POST", "", Null, Null, Null, Null, Null)}
    \cup {Req("/me/demandes", "GET", "", Null, p, Null, Null, <<" ", "a", "@", "a", ".", "a">>) :
            p \in PageSizeParams}
    \cup {Req("/me/demandes", "GET", "", Null, p, a, x, e) :
            p \in {Null, <<"3">>}, a \in AuthHeaders,
            x \in HeaderEmails, e \in SessionEmails}
    \cup {Req("/me/person", "GET", "", Null, Null, a, x, e) :
            a \in AuthHeaders, x \in HeaderEmails, e \in SessionEmails}
    \cup {Req("/proxy", m, t, p, Null, Null, Null, Null) :
            m \in Methods, t \in ResourceTypes, p \in Paths}
    \cup {Req("/proxy", m, "ADVANCED", p, Null, a, x, e) :
            m \in {"GET", "POST"}, p \in {<<"a">>, <<".", ".">>},
            a \in AuthHeaders, x \in HeaderEmails, e \in SessionEmails}

Statuses == {200, 399, 400, 502}

\* connection.getContentType(): "null" when the header is missing
ContentTypes == {"null", "text/html"}

PersonBodies ==
    {JsonObject(Absent, NoError, PerIDString(<<"4", "2">>)),
     JsonObject(Absent, NoError, PerIDString(<<"4", " ", "2">>)),
     JsonObject(Absent, NoError, PerIDDescriptor(Absent, Absent, Absent)),
     JsonObject(Absent, NoError, PerIDDescriptor(Absent, Absent, <<"4", "2">>)),
     JsonObject(Absent, NoError, PerIDDescriptor(<<>>, <<"8">>, <<"4", "2">>)),
     JsonObject(Absent, NoError, PerIDDescriptor(<<"7">>, <<"8">>, <<"4", "2">>)),
     JsonObject(Absent, NoError, PerIDDescriptor(NonString, <<>>, <<"4", ",", "2">>))}

\* The streams a connection can hand out: some bodies whatever the call, and
\* the Person bodies in answer to a Person query.  getInputStream() never
\* returns null, getErrorStream() (status >= 400) may.
GenericBodies ==
    {EmptyText, EmptyObject, JsonError("upstream"),
     JsonObject(Absent, NoError, PerIDString(<<"4", "2">>))}

Streams(status, call) ==
    GenericBodies
    \cup (IF call.target.query.filterField = "PerMail" THEN PersonBodies ELSE {})
    \cup (IF status >= 400 THEN {NoStream} ELSE {})

\* What a connection can report: status, content type, stream.
\* A content type is reported along with the status 200 only, to keep the
\* number of answers down.
Answers ==
    {a \in [status : Statuses, contentType : ContentTypes,
            stream : GenericBodies \cup PersonBodies \cup {NoStream}] :
        /\ a.stream = NoStream => a.status >= 400
        /\ a.contentType # "null" => a.status = 200}

NoUpstream ==
    [kind |-> "none", status |-> 0, contentType |-> "null", stream |-> NoStream]
IOFailure ==
    [kind |-> "io", status |-> 0, contentType |-> "null", stream |-> NoStream]
UpstreamResponse(status, contentType, stream) ==
    [kind |-> "response", status |-> status, contentType |-> contentType,
     stream |-> stream]

NoResponse == [status |-> 0, contentType |-> "null", body |-> NoStream]

(***************************************************************************)
(* Actions of the gateway.                                                 *)
(***************************************************************************)

\* EfficyServiceConfiguration.activate (@Activate, @Modified).  A failed
\* activation throws and leaves the snapshot as it was.  The handlers read
\* the snapshot before their first upstream call only, so a change of
\* configuration is modelled between requests.
Activate(properties) ==
    /\ pc = "idle"
    /\ LET from == SnapshotFrom(properties)
       IN  /\ from.ok
           /\ snapshot' = from.snap
           /\ activated' = TRUE
    /\ UNCHANGED <<request, pc, calls, upstream, response, locals>>
    /\ UNCHANGED <<brokersVars, beanVars>>

\* doFilter from its start to its first upstream call or to its response.
\* The servlet is bound to the configuration service, which is registered
\* once activate has succeeded.
ReceiveRequest(req) ==
    /\ activated
    /\ pc = "idle"
    /\ request' = req
    /\ upstream' = NoUpstream
    /\ LET outcome == DoFilter(snapshot, req)
       IN  CASE outcome.kind = "call" ->
                  /\ calls' = <<outcome.val>>
                  /\ pc' = outcome.at
                  /\ locals' = outcome.locals
                  /\ response' = NoResponse
             [] outcome.kind = "return" ->
                  /\ calls' = <<>>
                  /\ pc' = "done"
                  /\ locals' = NoLocals
                  /\ response' = outcome.val
             [] outcome.kind = "throw" ->
                  /\ calls' = <<>>
                  /\ pc' = "done"
                  /\ locals' = NoLocals
                  /\ response' = Catch(outcome)
    /\ UNCHANGED <<snapshot, activated>>
    /\ UNCHANGED <<brokersVars, beanVars>>

\* doFilter called on the servlet whose configuration holds Snapshot.empty()
\* (activate has not run): doFilter itself does not look at the activation.
\* With the empty snapshot no token is configured and the caller's header is
\* not forwarded, so no request gets as far as an upstream call.
ReceiveRequestUnconfigured(req) ==
    /\ ~activated
    /\ pc = "idle"
    /\ request' = req
    /\ upstream' = NoUpstream
    /\ LET outcome == DoFilter(snapshot, req)
       IN  CASE outcome.kind = "call" ->
                  /\ calls' = <<outcome.val>>
                  /\ pc' = outcome.at
                  /\ locals' = outcome.locals
                  /\ response' = NoResponse
             [] outcome.kind = "return" ->
                  /\ calls' = <<>>
                  /\ pc' = "done"
                  /\ locals' = NoLocals
                  /\ response' = outcome.val
             [] outcome.kind = "throw" ->
                  /\ calls' = <<>>
                  /\ pc' = "done"
                  /\ locals' = NoLocals
                  /\ response' = Catch(outcome)
    /\ UNCHANGED <<snapshot, activated>>
    /\ UNCHANGED <<brokersVars, beanVars>>

\* forward returns for handleProxy or handleCurrentPerson, or for the
\* Demande call of handleDemandes: the response is written as it is.
UpstreamRespond(answer) ==
    /\ pc \in {"proxy", "person", "demandes_demande"}
    /\ answer.stream \in Streams(answer.status, calls[Len(calls)])
    /\ upstream' = UpstreamResponse(answer.status, answer.contentType, answer.stream)
    /\ response' = WriteGatewayResponse(
                       ForwardResult(answer.status, answer.contentType, answer.stream))
    /\ pc' = "done"
    /\ UNCHANGED <<snapshot, activated, request, calls, locals>>
    /\ UNCHANGED <<brokersVars, beanVars>>

\* forward returns the Person response to fetchDemandesForCurrentUser.
PersonRespond(answer) ==
    /\ pc = "demandes_person"
    /\ answer.stream \in Streams(answer.status, calls[Len(calls)])
    /\ LET status == answer.status
           contentType == answer.contentType
           stream == answer.stream
           personResponse == ForwardResult(status, contentType, stream)
           outcome == FetchDemandesAfterPerson(personResponse, locals.pageSize,
                          locals.authorization, locals.userEmail)
       IN  CASE outcome.kind = "call" ->
                  /\ calls' = Append(calls, outcome.val)
                  /\ pc' = "demandes_demande"
                  /\ upstream' = UpstreamResponse(status, contentType, stream)
                  /\ response' = NoResponse
             [] outcome.kind = "return" ->
                  /\ calls' = calls
                  /\ pc' = "done"
                  /\ upstream' = UpstreamResponse(status, contentType, stream)
                  /\ response' = WriteGatewayResponse(outcome.val)
             [] outcome.kind = "throw" ->
                  /\ calls' = calls
                  /\ pc' = "done"
                  /\ upstream' = UpstreamResponse(status, contentType, stream)
                  /\ response' = Catch(outcome)
    /\ UNCHANGED <<snapshot, activated, request, locals>>
    /\ UNCHANGED <<brokersVars, beanVars>>

\* forward throws an IOException (connection refused, timeout, broken
\* stream) at any step of the call.
UpstreamFail ==
    /\ pc \in {"proxy", "person", "demandes_person", "demandes_demande"}
    /\ upstream' = IOFailure
    /\ response' = Catch(Throw("IOException", "I/O error"))
    /\ pc' = "done"
    /\ UNCHANGED <<snapshot, activated, request, calls, locals>>
    /\ UNCHANGED <<brokersVars, beanVars>>

\* doFilter returns; the servlet takes the next request.
Finish ==
    /\ pc = "done"
    /\ pc' = "idle"
    /\ request' = NoRequest
    /\ calls' = <<>>
    /\ upstream' = NoUpstream
    /\ response' = NoResponse
    /\ locals' = NoLocals
    /\ UNCHANGED <<snapshot, activated>>
    /\ UNCHANGED <<brokersVars, beanVars>>

\* The gateway components as constructed: Snapshot.empty(), no request.
GatewayConstructed ==
    /\ snapshot = SnapshotEmpty
    /\ activated = FALSE
    /\ request = NoRequest
    /\ pc = "idle"
    /\ calls = <<>>
    /\ upstream = NoUpstream
    /\ response = NoResponse
    /\ locals = NoLocals

Init ==
    /\ GatewayConstructed
    /\ BrokersConstructed
    /\ field = Value(Undefined)
    /\ readers = NotRead
    /\ rawTexts = NoRawTexts
    /\ text = <<>>
    /\ decoded = NotDecoded
    /\ idLists = NotSplit
    /\ idField = Value(Undefined)
    /\ idArrays = NoIdArrays
    /\ normField = Value(Undefined)
    /\ normResults = NotNormalized
    /\ attBean = NoAttBean
    /\ attachment = NoAttachment
    /\ listing = NotListing
    /\ ClientConstructed

Next ==
    \/ \E properties \in Properties : Activate(properties)
    \/ \E req \in Requests : ReceiveRequest(req)
    \/ \E answer \in Answers : UpstreamRespond(answer)
    \/ \E answer \in Answers : PersonRespond(answer)
    \/ UpstreamFail
    \/ Finish

Spec == Init /\ [][Next]_vars

\* The servlet serving requests while no token is configured.
NextUnconfigured ==
    \/ \E req \in Requests : ReceiveRequestUnconfigured(req)
    \/ Finish

SpecUnconfigured == Init /\ [][NextUnconfigured]_vars

\* One BrokersService instance and the calls made on it.
NextBrokers ==
    \/ \E f \in Fields, id \in {"", "1"} : CallReferential(f, id)
    \/ \E rows \in RowBatches : FetchBrokerOpportunities(rows)
    \/ \E f \in Fields, payload \in Payloads : ReferentialResolved(f, payload)
    \/ \E f \in Fields : ReferentialRejected(f)

SpecBrokers == Init /\ [][NextBrokers]_vars

\* One BrokersService instance, the enterprise and person lookups made on
\* it, and the upstream answers.
NextLookups ==
    \/ \E enterpriseId \in LookupIds \cup {""} : GetEnterpriseName(enterpriseId)
    \/ \E enterpriseId \in LookupIds, payload \in EnterprisePayloads :
          EnterpriseResolved(enterpriseId, payload)
    \/ \E enterpriseId \in LookupIds : EnterpriseRejected(enterpriseId)
    \/ \E personId \in LookupIds \cup {""} : GetPersonInfo(personId)
    \/ \E personId \in LookupIds, payload \in PersonPayloads :
          PersonResolved(personId, payload)
    \/ \E personId \in LookupIds : PersonRejected(personId)

SpecLookups == Init /\ [][NextLookups]_vars

\* One BrokersService instance whose three kinds of request are answered
\* or fail: two referentials, one enterprise and one person, each with
\* one answer that holds a record.
NextFailures ==
    \/ \E f \in Fields : CallReferential(f, "1")
    \/ \E f \in Fields :
          ReferentialResolved(f, [shape |-> "array", rows |-> <<Item("1", "A")>>])
    \/ \E f \in Fields : ReferentialRejected(f)
    \/ GetEnterpriseName("1")
    \/ EnterpriseResolved("1",
          BeanPayload("bean_data",
              [EmptyBean EXCEPT !.EntCorpName = Value(Str(<<"A">>))]))
    \/ EnterpriseRejected("1")
    \/ GetPersonInfo("1")
    \/ PersonResolved("1",
          BeanPayload("data",
              Bean(Value(Undefined), Value(Str(<<"A">>)), Value(Str(<<"B">>)),
                   Value(Str(<<"7">>)))))
    \/ PersonRejected("1")

SpecFailures == Init /\ [][NextFailures]_vars

\* The scalar readers applied to every field shape.
InitBean ==
    /\ GatewayConstructed
    /\ BrokersConstructed
    /\ field \in FieldShapes
    /\ readers = NotRead
    /\ rawTexts = NoRawTexts
    /\ text = <<>>
    /\ decoded = NotDecoded
    /\ idLists = NotSplit
    /\ idField = Value(Undefined)
    /\ idArrays = NoIdArrays
    /\ normField = Value(Undefined)
    /\ normResults = NotNormalized
    /\ attBean = NoAttBean
    /\ attachment = NoAttachment
    /\ listing = NotListing
    /\ ClientConstructed

NextBean ==
    \/ ReadField
    \/ ReadAsRawText

SpecBean == InitBean /\ [][NextBean]_vars

\* The string normalisers applied to every input text.
InitText ==
    /\ GatewayConstructed
    /\ BrokersConstructed
    /\ field = Value(Undefined)
    /\ readers = NotRead
    /\ rawTexts = NoRawTexts
    /\ text \in Texts
    /\ decoded = NotDecoded
    /\ idLists = NotSplit
    /\ idField = Value(Undefined)
    /\ idArrays = NoIdArrays
    /\ normField = Value(Undefined)
    /\ normResults = NotNormalized
    /\ attBean = NoAttBean
    /\ attachment = NoAttachment
    /\ listing = NotListing
    /\ ClientConstructed

NextText ==
    \/ Decode

SpecText == InitText /\ [][NextText]_vars

\* splitIds applied to every identifier string.
InitIds ==
    /\ GatewayConstructed
    /\ BrokersConstructed
    /\ field = Value(Undefined)
    /\ readers = NotRead
    /\ rawTexts = NoRawTexts
    /\ text \in IdTexts
    /\ decoded = NotDecoded
    /\ idLists = NotSplit
    /\ idField = Value(Undefined)
    /\ idArrays = NoIdArrays
    /\ normField = Value(Undefined)
    /\ normResults = NotNormalized
    /\ attBean = NoAttBean
    /\ attachment = NoAttachment
    /\ listing = NotListing
    /\ ClientConstructed

NextIds ==
    \/ Split

SpecIds == InitIds /\ [][NextIds]_vars

\* The id-list readers applied to every id field.
InitIdList ==
    /\ GatewayConstructed
    /\ BrokersConstructed
    /\ field = Value(Undefined)
    /\ readers = NotRead
    /\ rawTexts = NoRawTexts
    /\ text = <<>>
    /\ decoded = NotDecoded
    /\ idLists = NotSplit
    /\ idField \in IdFieldShapes
    /\ idArrays = NoIdArrays
    /\ normField = Value(Undefined)
    /\ normResults = NotNormalized
    /\ attBean = NoAttBean
    /\ attachment = NoAttachment
    /\ listing = NotListing
    /\ ClientConstructed

NextIdList ==
    \/ ReadIdList

SpecIdList == InitIdList /\ [][NextIdList]_vars

\* The brokersService normalisers applied to every input string in every shape.
InitNormalize ==
    /\ GatewayConstructed
    /\ BrokersConstructed
    /\ field = Value(Undefined)
    /\ readers = NotRead
    /\ rawTexts = NoRawTexts
    /\ text \in NumberTexts
    /\ decoded = NotDecoded
    /\ idLists = NotSplit
    /\ idField = Value(Undefined)
    /\ idArrays = NoIdArrays
    /\ normField = Value(Undefined)
    /\ normResults = NotNormalized
    /\ attBean = NoAttBean
    /\ attachment = NoAttachment
    /\ listing = NotListing
    /\ ClientConstructed

NextNormalize ==
    \/ \E f \in ShapedFields(text) : Normalize(f)

SpecNormalize == InitNormalize /\ [][NextNormalize]_vars

\* toAttachment applied to every attachment bean.
InitAttachment ==
    /\ GatewayConstructed
    /\ BrokersConstructed
    /\ field = Value(Undefined)
    /\ readers = NotRead
    /\ rawTexts = NoRawTexts
    /\ text = <<>>
    /\ decoded = NotDecoded
    /\ idLists = NotSplit
    /\ idField = Value(Undefined)
    /\ idArrays = NoIdArrays
    /\ normField = Value(Undefined)
    /\ normResults = NotNormalized
    /\ attBean \in AttBeans
    /\ attachment = NoAttachment
    /\ listing = NotListing
    /\ ClientConstructed

NextAttachment ==
    \/ ToAttachment

SpecAttachment == InitAttachment /\ [][NextAttachment]_vars

\* listDemandes applied to every bean.
InitDemande ==
    /\ GatewayConstructed
    /\ BrokersConstructed
    /\ field = Value(Undefined)
    /\ readers = NotRead
    /\ rawTexts = NoRawTexts
    /\ text = <<>>
    /\ decoded = NotDecoded
    /\ idLists = NotSplit
    /\ idField = Value(Undefined)
    /\ idArrays = NoIdArrays
    /\ normField = Value(Undefined)
    /\ normResults = NotNormalized
    /\ attBean = NoAttBean
    /\ attachment = NoAttachment
    /\ listing = NotListing
    /\ dmdBean \in DemandeBeans
    /\ demande = NoDemande
    /\ linking = NotLinking
    /\ creation = NotCreating
    /\ opportunityForm = OpportunityFormMounted
    /\ detailsView = DetailsClosed

NextDemande ==
    \/ \E namesResolved \in BOOLEAN : ListDemandes(namesResolved)

SpecDemande == InitDemande /\ [][NextDemande]_vars

\* Link operations on one demande, in any interleaving.
NextLinking ==
    \/ \E ids_ \in {<<>>, <<<<"x">>>>, <<<<"x">>, <<"y">>>>} : DemandeLinkedBefore(ids_)
    \/ \E o \in 1..MaxLinks, service \in {"documents", "demandes"} : StartLink(o, service)
    \/ \E o \in 1..MaxLinks, ok \in BOOLEAN : Uploaded(o, ok)
    \/ \E o \in 1..MaxLinks, ok \in BOOLEAN : ReadAnswered(o, ok)
    \/ \E o \in 1..MaxLinks, ok \in BOOLEAN : WriteApplied(o, ok)

SpecLinking == Init /\ [][NextLinking]_vars

\* One createDemandeForCurrentUser call and the upstream answers.
NextCreation ==
    \/ \E input \in CreateDemandeInputs : CreateDemandeForCurrentUser(input)
    \/ \E ok \in BOOLEAN, personId \in {<<>>, <<"4", "2">>} :
          CreatePersonAnswered(ok, personId)
    \/ \E ok \in BOOLEAN, createResponse \in CreateResponses :
          CreatePostAnswered(ok, createResponse)
    \/ \E ok \in BOOLEAN, attachmentId \in {<<>>, <<"a">>} :
          CreateUploadAnswered(ok, attachmentId)
    \/ \E ok \in BOOLEAN, existing \in {<<>>, <<<<"x">>>>, <<<<"a">>, <<" ">>>>} :
          CreateReadAnswered(ok, existing)
    \/ \E ok \in BOOLEAN : CreateWriteAnswered(ok)

SpecCreation == Init /\ [][NextCreation]_vars

\* The user changes the selects of the new-opportunity form while the
\* person fetches settle in any order.
NextOpportunityForm ==
    \/ \E value \in Enterprises \cup {""} : UpdateEnterprise(value)
    \/ \E value \in {"", "a1", "b1", "b2"} : UpdatePerson(value)
    \/ PersonsEffect
    \/ \E k \in 1..MaxFetches : PersonsResolved(k)
    \/ \E k \in 1..MaxFetches : PersonsRejected(k)

SpecOpportunityForm == Init /\ [][NextOpportunityForm]_vars

\* The user opens and closes details while the opens settle in any order.
NextDetails ==
    \/ \E demandeId \in ListedDemandes : OpenDemandeDetails(demandeId)
    \/ CloseDemandeDetails
    \/ \E k \in 1..MaxOpens : AttachmentIdsResolved(k)
    \/ \E k \in 1..MaxOpens : AttachmentsListed(k)

SpecDetails == Init /\ [][NextDetails]_vars

\* One attachment listing call of either service, and the upstream answers.
NextListing ==
    \/ \E service \in {"demandes", "documents"}, attachmentIds \in AttachmentIdLists :
          StartListing(service, attachmentIds)
    \/ \E n \in 0..MaxListRows : ListResolved(n)
    \/ ListRejected
    \/ \E found \in BOOLEAN : DirectResolved(found)
    \/ DirectRejected

SpecListing == Init /\ [][NextListing]_vars

(***************************************************************************)
(* Properties of the gateway, checked under Spec.                          *)
(***************************************************************************)

DotDot == <<".", ".">>

\* C1: a proxy request whose CRM path contains ".." opens no upstream
\* connection, whatever the resource type and the method: the handler is
\* never blocked in a call, and for a supported method the request ends with
\* the path-validation error of forward (400, "Efficy path contains invalid
\* segments").
C1_TraversalOpensNoConnection ==
    (request.route = "/proxy" /\ Contains(request.path, DotDot)) =>
        /\ calls = <<>>
        /\ pc = "done"
        /\ request.method \in {"GET", "POST", "PUT", "DELETE"} =>
               response = [status |-> 400, contentType |-> JSON_CONTENT_TYPE,
                           body |-> JsonError("Efficy path contains invalid segments")]

\* C1 witness: a GET on /base/a.. (the traversal is not the whole path) was
\* answered 400 without a call.
C1_Witness ==
    /\ pc = "done"
    /\ request.route = "/proxy"
    /\ request.method = "GET"
    /\ request.resourceType = "BASE"
    /\ request.path = <<"a", ".", ".">>
    /\ calls = <<>>
    /\ response.status = 400

\* The response written is the one forward returned: every answered call,
\* but a Person answer below 400 inside /me/demandes, which is consumed.
ForwardResponseWritten ==
    /\ pc = "done"
    /\ upstream.kind = "response"
    /\ ~(request.route = "/me/demandes" /\ Len(calls) = 1 /\ upstream.status < 400)

HasQuotedPerID(body) ==
    /\ body.text = "object"
    /\ \/ body.PerID.shape = "string" /\ body.PerID.str \notin {Absent, NonString, <<>>}
       \/ /\ body.PerID.shape = "descriptor"
          /\ \E m \in {body.PerID.raw_value, body.PerID.value, body.PerID.label} :
                m \notin {Absent, NonString, <<>>}

\* fetchDemandesForCurrentUser receives, for its Person lookup, an answer
\* below 400 with a body that holds no person id.
PersonAnsweredWithoutId ==
    /\ pc = "demandes_person"
    /\ upstream'.kind = "response"
    /\ upstream'.status < 400
    /\ ~HasQuotedPerID(upstream'.stream)

\* C3: when the Person lookup of /me/demandes is answered below 400 and no
\* person id can be extracted, the request ends there with the fixed 404
\* response, without a further call; and a request that has ended makes no
\* call any more.
C3_NotFoundWithoutDemandeQuery ==
    [][ /\ PersonAnsweredWithoutId =>
            /\ pc' = "done"
            /\ calls' = calls
            /\ response' = [status |-> 404, contentType |-> JSON_CONTENT_TYPE,
                            body |-> JsonError("No Efficy customer found for logged user email")]
        /\ pc = "done" => (pc' = "idle" /\ calls' = <<>>) ]_vars

\* C3 witness: a 200 answer whose PerID descriptor holds no representation.
C3_Witness ==
    /\ pc = "done"
    /\ request.route = "/me/demandes"
    /\ Len(calls) = 1
    /\ upstream.kind = "response"
    /\ upstream.status = 200
    /\ upstream.stream.PerID.shape = "descriptor"
    /\ response.status = 404

\* The positive int a pageSize parameter parses to, 0 when there is none.
PositivePageSize(p) ==
    CASE p = <<"3">> -> 3
      [] p = <<"+", "7">> -> 7
      [] p = <<"2", "0">> -> 20
      [] p = <<"1", "0", "1">> -> 101
      [] p = <<"2", "1", "4", "7", "4", "8", "3", "6", "4", "7">> -> 2147483647
      [] OTHER -> 0

\* C5: the nb_of_result of every Demande query is p with 1 <= p <= the
\* configured maximum, p = min(requested, max) when pageSize parses to a
\* positive int and p = min(20, max) otherwise.
C5_PageSizeBounded ==
    \A i \in 1..Len(calls) :
        calls[i].target.query.filterField = "DmdPerID" =>
            LET p == calls[i].target.query.nb_of_result
                requested == PositivePageSize(request.pageSize)
            IN  /\ 1 <= p
                /\ p <= snapshot.maxPageSize
                /\ requested > 0 =>
                      p = IF requested < snapshot.maxPageSize
                          THEN requested ELSE snapshot.maxPageSize
                /\ requested = 0 =>
                      p = IF 20 < snapshot.maxPageSize THEN 20 ELSE snapshot.maxPageSize

\* C5 witness: pageSize=2147483648 (out of int range) with a maximum of 5
\* sent nb_of_result=5.
C5_Witness ==
    /\ pc = "demandes_demande"
    /\ request.pageSize = <<"2", "1", "4", "7", "4", "8", "3", "6", "4", "8">>
    /\ snapshot.maxPageSize = 5
    /\ calls[2].target.query.nb_of_result = 5

BadGatewayResponse ==
    [status |-> 502, contentType |-> JSON_CONTENT_TYPE,
     body |-> JsonError("Efficy API communication failed")]

\* C6: a request whose upstream call failed with an I/O error ends with the
\* fixed 502 response, at whichever call of the request it failed; an answer
\* received with a status >= 400 is never replaced by it.
C6_TransportFailureIs502 ==
    pc = "done" =>
        /\ upstream.kind = "io" => response = BadGatewayResponse
        /\ (upstream.kind = "response" /\ upstream.status >= 400) =>
              /\ response # BadGatewayResponse
              /\ response.status = upstream.status

\* C6 witness: the Demande query (second call) of /me/demandes failed.
C6_Witness ==
    /\ pc = "done"
    /\ upstream.kind = "io"
    /\ Len(calls) = 2
    /\ response = BadGatewayResponse

\* The caller email resolved for the request has the form of an address,
\* local@domain.tld: of the emails served, " a@a.a" (session), "b@a.a " and
\* "]@a.a" (header) have.
CallerEmailWellFormed ==
    \/ request.sessionEmail = <<" ", "a", "@", "a", ".", "a">>
    \/ /\ request.sessionEmail \in {Null, <<" ">>}
       /\ request.xUserEmail \in {<<"b", "@", "a", ".", "a", " ">>,
                                  <<"]", "@", "a", ".", "a">>}

\* C7: GET /me/person and GET /me/demandes with a missing or malformed
\* caller email end with a 400 JSON error, a proxy request with a method other
\* than GET, POST, PUT, DELETE with a 405 JSON error, and neither makes an
\* upstream call.
C7_ValidationBeforeAnyCall ==
    /\ ( /\ request.route \in {"/me/person", "/me/demandes"}
         /\ request.method = "GET"
         /\ ~CallerEmailWellFormed ) =>
            /\ calls = <<>>
            /\ pc = "done"
            /\ response = [status |-> 400, contentType |-> JSON_CONTENT_TYPE,
                           body |-> JsonError("Unable to resolve logged user email")]
    /\ ( /\ request.route = "/proxy"
         /\ request.method \notin {"GET", "POST", "PUT", "DELETE"} ) =>
            /\ calls = <<>>
            /\ pc = "done"
            /\ response = [status |-> 405, contentType |-> JSON_CONTENT_TYPE,
                           body |-> JsonError("Unsupported HTTP method")]

\* C7 witness: GET /me/person, the session email "a@" is malformed and the
\* header of the caller is well formed: 400.
C7_Witness ==
    /\ pc = "done"
    /\ request.route = "/me/person"
    /\ request.sessionEmail = <<"a", "@">>
    /\ request.xUserEmail = <<"b", "@", "a", ".", "a", " ">>
    /\ response.status = 400
    /\ calls = <<>>

\* C8: with forwarding disabled the Authorization sent upstream is the
\* trimmed configured token whatever the caller sent (so two requests that
\* differ in the caller's Authorization only send the same one); the
\* caller's header, trimmed, is sent only with forwarding enabled and a
\* non-blank header.
C8_AuthorizationFromConfiguration ==
    /\ \A i \in 1..Len(calls) :
          LET callerHeaderBlank ==
                  request.authorization = Null \/ Trim(request.authorization) = <<>>
          IN  /\ ~snapshot.forwardClientAuthorization =>
                    calls[i].authorization = Trim(snapshot.token)
              /\ calls[i].authorization # Trim(snapshot.token) =>
                    /\ snapshot.forwardClientAuthorization
                    /\ ~callerHeaderBlank
                    /\ calls[i].authorization = Trim(request.authorization)
    /\ ~snapshot.forwardClientAuthorization =>
          \A a1, a2 \in AuthHeaders :
              ResolveAuthorizationHeader(snapshot, [request EXCEPT !.authorization = a1])
                = ResolveAuthorizationHeader(snapshot, [request EXCEPT !.authorization = a2])

\* C8 witness: forwarding disabled, the caller sent " c", the token went
\* upstream.
C8_Witness ==
    /\ calls # <<>>
    /\ ~snapshot.forwardClientAuthorization
    /\ request.authorization = <<" ", "c">>
    /\ calls[1].authorization = <<"t">>

\* C9: when the session user has a non-blank email, the X-User-Email sent
\* upstream and the email of the PerMail filter are that email (trimmed),
\* whatever X-User-Email the caller sent; the caller's header is used only
\* when there is no session email.
C9_IdentityFromSession ==
    \A i \in 1..Len(calls) :
        LET sessionBlank ==
                request.sessionEmail = Null \/ Trim(request.sessionEmail) = <<>>
            identity == IF sessionBlank
                        THEN (IF request.xUserEmail = Null \/ Trim(request.xUserEmail) = <<>>
                              THEN Null ELSE Trim(request.xUserEmail))
                        ELSE Trim(request.sessionEmail)
        IN  /\ calls[i].xUserEmail = identity
            /\ calls[i].target.query.filterField = "PerMail" =>
                  calls[i].target.query.filterValue = identity

\* C9 witness: a Person query for the session email " a@a.a" although the
\* caller sent X-User-Email "b@a.a ".
C9_Witness ==
    /\ calls # <<>>
    /\ request.sessionEmail = <<" ", "a", "@", "a", ".", "a">>
    /\ request.xUserEmail = <<"b", "@", "a", ".", "a", " ">>
    /\ calls[1].target.query.filterField = "PerMail"
    /\ calls[1].target.query.filterValue = <<"a", "@", "a", ".", "a">>
    /\ calls[1].xUserEmail = <<"a", "@", "a", ".", "a">>

(***************************************************************************)
(* Properties of the referential cache, checked under SpecBrokers.         *)
(***************************************************************************)

\* C4: within one BrokersService instance at most one referential_for
\* request is sent per field name, under any sequence or interleaving of the
\* calls that resolve referential maps, labels or numbers.
C4_AtMostOneFetchPerField ==
    \A f \in Fields : issued[f] <= 1

\* C4 witness: two requests for the same field are in flight at once, the
\* cache holding no entry for it yet.
C4_Witness ==
    \E f \in Fields :
        /\ ~referentialCache[f].has
        /\ pending[f] = 2
        /\ issued[f] = 2

(***************************************************************************)
(* Properties of the scalar readers, checked under SpecBean.               *)
(***************************************************************************)

\* A member that is there: neither undefined nor null
Present(m) == m.t \notin {"undefined", "null"}

\* The first member present by the priority raw_value > value > label,
\* Undefined when none is
FirstPresent(f) ==
    IF Present(f.raw_value) THEN f.raw_value
    ELSE IF Present(f.value) THEN f.value
    ELSE IF Present(f.label) THEN f.label
    ELSE Undefined

\* undefined, the empty string or the empty list
EmptyOrUndefined(x) ==
    \/ x.t = "undefined"
    \/ x.t = "string" /\ x.v = <<"">>
    \/ x.t = "list" /\ x.v = <<>>

AllReaders == {"brokersService", "profileService", "apiClient"}

\* C10: for a field that is a descriptor each of the three scalar readers
\* returns the content of raw_value when it is present, else of value, else
\* of label, and an empty or undefined result when none is present; a string
\* or list field is returned as it is, a missing field yields undefined.
C10_ReadersByPriority ==
    readers.read =>
        \A who \in AllReaders :
            /\ field.t = "object" =>
                  IF FirstPresent(field) # Undefined
                  THEN readers[who] = Value(FirstPresent(field))
                  ELSE EmptyOrUndefined(readers[who])
            /\ field.t \in {"string", "list"} => readers[who] = field
            /\ field.t = "undefined" => readers[who] = Value(Undefined)

\* C10 witness: a descriptor with none of the three members was read; the
\* readers of brokersService and profileService returned the descriptor.
C10_Witness ==
    /\ readers.read
    /\ field = Descriptor(Undefined, Undefined, Undefined)
    /\ readers.brokersService = field
    /\ readers.profileService = field
    /\ readers.apiClient = Value(Undefined)

\* The readers of internal ids
RawReaders == {"brokersService", "apiClient", "knowledgeBase"}

\* C11: the raw-text readers of brokersService, EfficyApiClient and
\* knowledgeBaseService never return the label of a descriptor: for a
\* descriptor with neither raw_value nor value they return the empty string,
\* whatever label holds.
C11_RawTextNeverLabel ==
    (/\ rawTexts.read
     /\ field.t = "object"
     /\ Nullish(field.raw_value)
     /\ Nullish(field.value))
        => \A who \in RawReaders : rawTexts[who] = ""

\* C11 witness: a descriptor holding only a label was read; the reader of
\* knowledgeBaseService returned the label, the other two the empty string.
C11_Witness ==
    /\ rawTexts.read
    /\ field = Descriptor(Undefined, Undefined, Str("l"))
    /\ rawTexts.knowledgeBase = "l"
    /\ rawTexts.brokersService = ""
    /\ rawTexts.apiClient = ""

(***************************************************************************)
(* Properties of the string normalisers, checked under SpecText.           *)
(***************************************************************************)

C13_SplitIdempotent ==
    idLists.done => idLists.again = idLists.once

\* C13 witness: [[a]] was split into the one entry [a], which splits into a.
C13_Witness ==
    /\ idLists.done
    /\ text = <<"[", "[", "a", "]", "]">>
    /\ idLists.once = << <<"[", "a", "]">> >>
    /\ idLists.again = << <<"a">> >>

(***************************************************************************)
(* Properties of the id-list readers, checked under SpecIdList.            *)
(***************************************************************************)

\* The identifiers a string or list field names, in the order of the input
IdentifiersOf(f) ==
    IF f.t = "string" THEN SplitIds(f.v[1]) ELSE FlatMapSplitIds(f.v)

\* C14: for a string or list field both id-list readers return the
\* identifiers of the field without empty entries and without duplicates, in
\* the order of their first occurrence.
C14_IdListDeduplicated ==
    (idArrays.done /\ idField.t \in {"string", "list"}) =>
        LET expected == KeepFirstOccurrences(IdentifiersOf(idField), {})
        IN  /\ idArrays.asArray.list = expected
            /\ idArrays.readAsStringArray = expected
            /\ \A i \in 1..Len(expected) : expected[i] # <<>>

\* C14 witness: the string a,a was read; both readers returned a twice.
C14_Witness ==
    /\ idArrays.done
    /\ idField = Value(Str(<<"a", ",", "a">>))
    /\ idArrays.asArray = Array(<< <<"a">>, <<"a">> >>)
    /\ idArrays.readAsStringArray = << <<"a">>, <<"a">> >>

(***************************************************************************)
(* Properties of the brokersService normalisers, checked under             *)
(* SpecNormalize.                                                          *)
(***************************************************************************)

\* C15: normalisation is total: for every field shape and every string
\* content readAsText, readAsRawText, readAsRawArray and readAsNumber (and
\* decodeHtmlEntities, which readAsText applies) return a value and never
\* throw; a missing field gives the empty string, the empty list and 0.
C15_NormalizationTotal ==
    normResults.done =>
        /\ normResults.readAsText.ok
        /\ normResults.readAsRawText.ok
        /\ normResults.readAsRawArray.ok
        /\ normResults.readAsNumber.ok
        /\ normField = Value(Undefined) =>
              /\ normResults.readAsText = Gave(<<>>)
              /\ normResults.readAsRawText = Gave("")
              /\ normResults.readAsRawArray = Gave(<<>>)
              /\ normResults.readAsNumber = Gave(Zero)

\* C15 witness: a string field holding the reference &#1114112; (the first
\* number above the last code point) was read; readAsText threw.
C15_Witness ==
    /\ normResults.done
    /\ text = <<"&", "#", "1", "1", "1", "4", "1", "1", "2", ";">>
    /\ normField = Value(Str(text))
    /\ ~normResults.readAsText.ok
    /\ normResults.readAsNumber.ok

\* What is left of the input once whitespace, currency symbols and letters
\* are stripped
Stripped(input) == KeepChars(input, DecimalDigits \cup {",", ".", "-", "+"})

\* The character that is the decimal point of c: the separator occurring
\* last when both occur, else the one that occurs; "" when none occurs
DecimalPoint(c) ==
    IF LastIndexOf(c, ",") = 0 /\ LastIndexOf(c, ".") = 0 THEN ""
    ELSE IF LastIndexOf(c, ",") > LastIndexOf(c, ".") THEN "," ELSE "."

\* c is one number: a sign at the front only, at least one digit, the
\* decimal point at most once
OneNumber(c) ==
    /\ \A i \in 2..Len(c) : c[i] \notin {"-", "+"}
    /\ \E i \in 1..Len(c) : c[i] \in DecimalDigits
    /\ Cardinality({i \in 1..Len(c) : c[i] = DecimalPoint(c)}) <= 1

\* The number c denotes when the other separator is a thousands separator
Denoted(c) ==
    LET point == LastIndexOf(c, DecimalPoint(c))
        before == IF point = 0 THEN c ELSE SubSeq(c, 1, point - 1)
        after == IF point = 0 THEN <<>> ELSE SubSeq(c, point + 1, Len(c))
    IN  Number(c[1] = "-",
               DigitsValue(KeepChars(before, DecimalDigits)
                           \o KeepChars(after, DecimalDigits), 0),
               Len(KeepChars(after, DecimalDigits)))

\* C16: readAsNumber on a string field always returns a finite number; once
\* whitespace and symbols are stripped, the separator occurring last is the
\* decimal point and the other one is dropped, a lone comma is the decimal
\* point, and an input without a digit gives 0.
C16_ReadAsNumber ==
    (normResults.done /\ normField = Value(Str(text))) =>
        /\ normResults.readAsNumber.ok
        /\ normResults.readAsNumber.val.kind = "num"
        /\ OneNumber(Stripped(text)) =>
              normResults.readAsNumber.val = Denoted(Stripped(text))
        /\ (\A i \in 1..Len(text) : text[i] \notin DecimalDigits) =>
              normResults.readAsNumber.val = Zero

\* C16 witness: the string 1.234,56 was read as 1234.56.
C16_Witness ==
    /\ normResults.done
    /\ text = <<"1", ".", "2", "3", "4", ",", "5", "6">>
    /\ normField = Value(Str(text))
    /\ normResults.readAsNumber = Gave(Number(FALSE, 123456, 2))

(***************************************************************************)
(* Properties of toAttachment, checked under SpecAttachment.               *)
(***************************************************************************)

\* C17: for a bean with no explicit size field, toAttachment does not fail
\* and sets size to the number of bytes when AttFile is a byte array and to
\* ceil(0.75 x length) when AttFile is a non-empty base64 string.
C17_SizeEstimated ==
    (attachment.done /\ attBean.AttSize = Value(Undefined)
                     /\ attBean.AttFile.t \in {"undefined", "array", "string"}) =>
        /\ attachment.size.ok
        /\ attBean.AttFile.t = "array" =>
              attachment.size.val = SomeNumber(attBean.AttFile.length)
        /\ (attBean.AttFile.t = "string" /\ attBean.AttFile.length > 0) =>
              attachment.size.val = SomeNumber((attBean.AttFile.length * 3 + 3) \div 4)

\* C17 witness: a base64 string of 5 characters and no AttSize: size is 3,
\* where ceil(3.75) is 4.
C17_Witness ==
    /\ attachment.done
    /\ attBean.AttSize = Value(Undefined)
    /\ attBean.AttFile = [t |-> "string", length |-> 5]
    /\ attachment.size = Gave(SomeNumber(3))

(***************************************************************************)
(* Properties of the attachment listing, checked under SpecListing.        *)
(***************************************************************************)

\* The attachments of the ids whose lookup succeeded, in the order of the log
RECURSIVE AttachmentsOfSucceeded(_)
AttachmentsOfSucceeded(log) ==
    IF log = <<>> THEN <<>>
    ELSE (IF log[1].list > 0 THEN Rows(log[1].id, log[1].list)
          ELSE IF log[1].direct = "found" THEN <<Attachment(log[1].id, "direct", 1)>>
          ELSE <<>>)
         \o AttachmentsOfSucceeded(Tail(log))

\* The ids that are not empty, in order
RECURSIVE NonEmptyIds(_)
NonEmptyIds(ids_) ==
    IF ids_ = <<>> THEN <<>>
    ELSE (IF ids_[1] = <<>> THEN <<>> ELSE <<ids_[1]>>) \o NonEmptyIds(Tail(ids_))

\* C18: a listing never rejects because a lookup failed; when it returns,
\* every non-empty id was looked up once, in id order, and the result is
\* exactly the attachments of the ids whose lookups succeeded, in that order.
C18_FailuresSwallowed ==
    /\ listing.pc # "rejected"
    /\ listing.pc = "done" =>
          /\ [k \in 1..Len(listing.log) |-> listing.log[k].id] = NonEmptyIds(listing.ids)
          /\ listing.attachments = AttachmentsOfSucceeded(listing.log)

\* C18 witness: of three ids the first lookup failed, the second fell back
\* to the direct lookup, which failed, and the third returned rows; the call
\* returned the rows of the third id only.
C18_Witness ==
    /\ listing.pc = "done"
    /\ Len(listing.log) = 3
    /\ listing.log[1].list = -1
    /\ listing.log[2].direct = "failed"
    /\ listing.log[3].list = 2
    /\ listing.attachments = Rows(listing.ids[3], 2)

(***************************************************************************)
(* Properties of the person id extraction, checked under Spec.             *)
(***************************************************************************)

\* The first of PerID.raw_value, PerID.value, PerID.label and the bare
\* string PerID that is a quoted text of one character or more
FirstPresentPerID(perId) ==
    LET candidates == <<perId.raw_value, perId.value, perId.label, perId.str>>
        present == {k \in 1..4 : candidates[k] \notin {Absent, NonString, <<>>}}
    IN  candidates[CHOOSE k \in present : \A j \in present : k <= j]

\* C19: when the Person lookup of /me/demandes is answered below 400 with a
\* body holding a person id, the id taken is the first present of
\* PerID.raw_value, PerID.value, PerID.label and the bare string PerID; if
\* it is made of letters, digits, _ and - the Demande query is issued next
\* with the filter DmdPerID=<id>, otherwise the request ends with the 404.
C19_PersonIdByPriority ==
    [][ ( /\ pc = "demandes_person"
          /\ upstream'.kind = "response"
          /\ upstream'.status < 400
          /\ HasQuotedPerID(upstream'.stream) ) =>
            LET id == FirstPresentPerID(upstream'.stream.PerID)
            IN  IF PersonIdMatches(id)
                THEN /\ pc' = "demandes_demande"
                     /\ Len(calls') = Len(calls) + 1
                     /\ calls'[Len(calls')].target.query.filterField = "DmdPerID"
                     /\ calls'[Len(calls')].target.query.filterValue = id
                ELSE /\ pc' = "done"
                     /\ calls' = calls
                     /\ response'.status = 404 ]_vars

\* C19 witness: a PerID descriptor holding only label "42" was answered and
\* the Demande query with the filter DmdPerID=42 is under way.
C19_Witness ==
    /\ pc = "demandes_demande"
    /\ upstream.kind = "response"
    /\ upstream.stream = JsonObject(Absent, NoError,
                                    PerIDDescriptor(Absent, Absent, <<"4", "2">>))
    /\ Len(calls) = 2
    /\ calls[2].target.query.filterField = "DmdPerID"
    /\ calls[2].target.query.filterValue = <<"4", "2">>

(***************************************************************************)
(* Properties of the enterprise and person lookups, checked under          *)
(* SpecLookups.                                                            *)
(***************************************************************************)

\* C20: once a lookup of a non-empty id has completed without error, a
\* later call of the same lookup for that id sends no request and returns
\* what the completed lookup returned, whatever the upstream had answered.
C20_LookupsMemoized ==
    [][ ( /\ lastLookup'.op = "call"
          /\ lastLookup'.id \in LookupIds
          /\ settled[lastLookup'.kind][lastLookup'.id].has ) =>
            /\ ~lastLookup'.sent
            /\ lastLookup'.returned
            /\ lastLookup'.result = settled[lastLookup'.kind][lastLookup'.id].val ]_vars

\* C20 witness: a person lookup that was answered without a record has
\* completed, and the next getPersonInfo for the same id sent a request.
C20_Witness ==
    /\ lastLookup.op = "call"
    /\ lastLookup.kind = "person"
    /\ lastLookup.id \in LookupIds
    /\ lastLookup.sent
    /\ settled["person"][lastLookup.id] = Cached(NoInfo)
    /\ ~personCache[lastLookup.id].has

(***************************************************************************)
(* Properties of listDemandes, checked under SpecDemande.                  *)
(***************************************************************************)

\* The text of a member: a string as it is, a list joined, "" otherwise
TextOfMember(m) ==
    IF m.t = "string" THEN m.v[1]
    ELSE IF m.t = "list" THEN JoinComma(m.v)
    ELSE <<>>

\* C21: the display fields made of a descriptor follow the priority
\* raw_value > value > label: the status (and with it the token, the date,
\* the priority and the description, read the same way) is the text of the
\* first of raw_value, value, label that is present.
C21_DisplayFieldsByPriority ==
    (demande.done /\ ~demande.rejected /\ dmdBean.DmdStatus.t = "object") =>
        LET f == dmdBean.DmdStatus
            first == Coalesce(f.raw_value, Coalesce(f.value, f.label))
        IN  /\ demande.status = TextOfMember(first)
            /\ demande.dateCreated = TextOfMember(first)
            /\ demande.priority = TextOfMember(first)

\* C21 witness: raw_value, value and label are all three present and the
\* status shown is the label.
C21_Witness ==
    /\ demande.done
    /\ ~demande.rejected
    /\ dmdBean.DmdStatus = Descriptor(Str(<<"r">>), Str(<<"v">>), Str(<<"l">>))
    /\ demande.status = <<"l">>

(***************************************************************************)
(* The chain of /me/demandes, checked under Spec.                          *)
(***************************************************************************)

\* C22: a /me/demandes request sends at most one Person query, then at most
\* one Demande query; the Demande query is sent only in the step in which
\* the Person query was answered below 400 with a person id; a Person answer
\* of 400 or more ends the request with that response as forward built it
\* (same status, same body, {} when there is no stream), without a further
\* call; no call is ever sent again.
C22_LinearChain ==
    [][ request'.route = "/me/demandes" =>
          /\ Len(calls') <= 2
          /\ Len(calls') >= 1 => calls'[1].target.query.filterField = "PerMail"
          /\ Len(calls') = 2 => calls'[2].target.query.filterField = "DmdPerID"
          /\ (calls # <<>> /\ calls' # calls) =>
                /\ pc = "demandes_person"
                /\ pc' = "demandes_demande"
                /\ Len(calls) = 1
                /\ SubSeq(calls', 1, 1) = calls
                /\ upstream'.kind = "response"
                /\ upstream'.status < 400
                /\ HasQuotedPerID(upstream'.stream)
          /\ ( /\ pc = "demandes_person"
               /\ upstream'.kind = "response"
               /\ upstream'.status >= 400 ) =>
                /\ pc' = "done"
                /\ calls' = calls
                /\ response'.status = upstream'.status
                /\ response'.body = IF upstream'.stream = NoStream
                                    THEN EmptyObject ELSE upstream'.stream ]_vars

\* C22 witness: the chain ran to its end: the Person query, then the Demande
\* query, whose answer was written.
C22_Witness ==
    /\ pc = "done"
    /\ request.route = "/me/demandes"
    /\ Len(calls) = 2
    /\ calls[1].target.query.filterField = "PerMail"
    /\ calls[2].target.query.filterField = "DmdPerID"
    /\ upstream.kind = "response"
    /\ response.status = 200

(***************************************************************************)
(* The unexpected failure, checked under SpecUnconfigured.                 *)
(***************************************************************************)

\* The request gets as far as resolveAuthorizationHeader, which finds no
\* usable Authorization: the configured token is blank and the caller's
\* header is not taken.
NoUsableAuthorization ==
    /\ Trim(snapshot.token) = <<>>
    /\ ~(snapshot.forwardClientAuthorization /\ request.authorization # Null
         /\ Trim(request.authorization) # <<>>)
    /\ \/ request.route \in {"/me/demandes", "/me/person"} /\ request.method = "GET"
       \/ /\ request.route = "/proxy"
          /\ request.method \in {"GET", "POST", "PUT", "DELETE"}
          /\ request.resourceType \in {"ADVANCED", "BASE", "SERVICE"}

\* C23: a request that fails for want of a usable Authorization ends with
\* status 500 and the fixed body {"error":"Unexpected server error"}, without
\* any upstream call; and every 500 written carries that body, which is not
\* the message of the exception.
C23_UnexpectedFailureFixed ==
    pc = "done" =>
        /\ NoUsableAuthorization =>
              /\ response = [status |-> 500, contentType |-> JSON_CONTENT_TYPE,
                             body |-> JsonError("Unexpected server error")]
              /\ calls = <<>>
        /\ response.status = 500 =>
              /\ response.body = JsonError("Unexpected server error")
              /\ response.body.error # "Missing Efficy token configuration"
              /\ calls = <<>>

\* C23 witness: GET /me/demandes with a valid session email, no token
\* configured: 500 with the fixed body, no call.
C23_Witness ==
    /\ pc = "done"
    /\ request.route = "/me/demandes"
    /\ request.method = "GET"
    /\ NoUsableAuthorization
    /\ response.status = 500
    /\ response.body = JsonError("Unexpected server error")
    /\ calls = <<>>

(***************************************************************************)
(* Identity-not-found on /me/person, checked under Spec.                   *)
(***************************************************************************)

\* GET /me/person was answered below 400 by a body that holds no person id:
\* the email matches no person.
PersonNotFoundAnswered ==
    /\ pc = "done"
    /\ request.route = "/me/person"
    /\ request.method = "GET"
    /\ Len(calls) = 1
    /\ upstream.kind = "response"
    /\ upstream.status < 400
    /\ ~HasQuotedPerID(upstream.stream)

\* C24: GET /me/person for an email that matches no person ends with the
\* fixed 404 identity-not-found response.
C24_PersonNotFound ==
    PersonNotFoundAnswered =>
        response = [status |-> 404, contentType |-> JSON_CONTENT_TYPE,
                    body |-> JsonError("No Efficy customer found for logged user email")]

\* C24 witness: the Person query of GET /me/person was answered 200 with {}
\* and the 200 with {} was written.
C24_Witness ==
    /\ PersonNotFoundAnswered
    /\ upstream.status = 200
    /\ upstream.stream = EmptyObject
    /\ response.status = 200
    /\ response.body = EmptyObject

(***************************************************************************)
(* Properties of the attachment linking, checked under SpecLinking.        *)
(***************************************************************************)

\* The elements of a list
ElementsOf(list) == {list[k] : k \in 1..Len(list)}

\* C25: when every link operation that was started has completed
\* successfully, DmdAttID holds every id linked before and the id of every
\* attachment those operations uploaded.
C25_NoLinkLost ==
    (\A o \in 1..MaxLinks : linking.ops[o].pc \in {"idle", "done"}) =>
        /\ ElementsOf(linking.before) \subseteq ElementsOf(linking.DmdAttID)
        /\ \A o \in 1..MaxLinks :
              linking.ops[o].pc = "done" =>
                  linking.ops[o].attachmentId \in ElementsOf(linking.DmdAttID)

\* C25 witness: two operations read the same DmdAttID before either wrote;
\* both completed and the id of the first is no longer linked.
C25_Witness ==
    /\ linking.ops[1].pc = "done"
    /\ linking.ops[2].pc = "done"
    /\ linking.ops[1].attachmentId \notin ElementsOf(linking.DmdAttID)
    /\ linking.ops[2].attachmentId \in ElementsOf(linking.DmdAttID)

(***************************************************************************)
(* Properties of createDemandeForCurrentUser, checked under SpecCreation.  *)
(***************************************************************************)

CreationSteps == <<"person", "post", "upload", "read", "write">>

\* The request of the given name was sent
Sent(name) == \E k \in 1..Len(creation.requests) : creation.requests[k] = name

\* The k-th request was answered with a rejection
RejectedAt(k) == Len(creation.answers) >= k /\ creation.answers[k] = "rejected"

\* C26: the requests are sent in the order person, POST, upload, read,
\* update, each once at most and none before the one before it was answered
\* well; the POST is sent only with a person id, a trimmed description and a
\* qualification id that are not empty; the upload only once the demande is
\* created and its id extracted; a failure after the POST rejects with the
\* key of the step that failed, the demande staying created.
C26_CreationInOrder ==
    /\ Len(creation.requests) <= 5
    /\ creation.requests = SubSeq(CreationSteps, 1, Len(creation.requests))
    /\ \A k \in 1..(Len(creation.requests) - 1) : creation.answers[k] = "ok"
    /\ Sent("post") =>
          /\ creation.personId # <<>>
          /\ Trim(creation.input.description) # <<>>
          /\ creation.input.qualificationId # <<>>
          /\ creation.posted = Trim(creation.input.description)
    /\ Sent("upload") =>
          /\ creation.input.attachmentFile
          /\ creation.created
          /\ creation.demandeId # <<>>
    /\ creation.pc = "ended" =>
          /\ creation.outcome = "demandes.create.errors.attachMissingDemande" <=>
                /\ Len(creation.requests) = 2
                /\ creation.answers[2] = "ok"
                /\ creation.input.attachmentFile
          /\ creation.outcome = "demandes.create.errors.attachUpload" <=>
                /\ Len(creation.requests) = 3
          /\ creation.outcome = "demandes.create.errors.attachLink" <=>
                /\ Len(creation.requests) \in {4, 5}
                /\ RejectedAt(Len(creation.requests))
          /\ creation.outcome \in {"demandes.create.errors.attachMissingDemande",
                                   "demandes.create.errors.attachUpload",
                                   "demandes.create.errors.attachLink"} =>
                creation.created
          /\ creation.outcome = "resolved" =>
                /\ creation.created
                /\ Len(creation.requests) = IF creation.input.attachmentFile
                                            THEN 5 ELSE 2

\* C26 witness: the demande was created, the file uploaded, and the update
\* of DmdAttID rejected: the call rejects with attachLink, the demande stays.
C26_Witness ==
    /\ creation.pc = "ended"
    /\ creation.requests = CreationSteps
    /\ creation.answers[5] = "rejected"
    /\ creation.outcome = "demandes.create.errors.attachLink"
    /\ creation.created

(***************************************************************************)
(* The values placed in the filters of the identity resolver, checked      *)
(* under Spec.                                                             *)
(***************************************************************************)

FilterMetaChars == {",", "[", "]", "{", "}"}

FreeOfMetaChars(s) == \A k \in 1..Len(s) : s[k] \notin FilterMetaChars

\* C27: the value of every PerMail filter and of every DmdPerID filter sent
\* upstream holds none of the characters , [ ] { }, and the value of every
\* DmdPerID filter matches [A-Za-z0-9_-]+.
C27_FilterValuesClean ==
    \A i \in 1..Len(calls) :
        /\ calls[i].target.query.filterField = "DmdPerID" =>
              /\ PersonIdMatches(calls[i].target.query.filterValue)
              /\ FreeOfMetaChars(calls[i].target.query.filterValue)
        /\ calls[i].target.query.filterField = "PerMail" =>
              FreeOfMetaChars(calls[i].target.query.filterValue)

\* C27 witness: the header email "]@a.a" passed normalizeUserEmail and is
\* the value of the PerMail filter of the Person query.
C27_Witness ==
    /\ Len(calls) >= 1
    /\ calls[1].target.query.filterField = "PerMail"
    /\ calls[1].target.query.filterValue = <<"]", "@", "a", ".", "a">>

(***************************************************************************)
(* Properties of the new-opportunity form, checked under                   *)
(* SpecOpportunityForm.                                                    *)
(***************************************************************************)

\* C28: once the persons effect of the latest enterprise change has run,
\* every person offered by the person select is a person of the enterprise
\* selected in the form.
C28_PersonsOfSelectedEnterprise ==
    ~opportunityForm.effectDue =>
    \A k \in 1..Len(opportunityForm.persons) :
        opportunityForm.persons[k].enterpriseId = opportunityForm.form.enterpriseId

\* C28 witness: enterprise B is selected, its effect has run and its fetch
\* is under way, and the select still offers the person of enterprise A.
C28_Witness ==
    /\ opportunityForm.form.enterpriseId = "B"
    /\ ~opportunityForm.effectDue
    /\ opportunityForm.fetches = <<[enterpriseId |-> "B", active |-> TRUE]>>
    /\ opportunityForm.persons = PersonsOfEnterprise("A")

(***************************************************************************)
(* Properties of the details view, checked under SpecDetails.              *)
(***************************************************************************)

\* C30: the attachments shown in the details view are attachments of the
\* demande shown, and the view is "loaded" or "error" only once an open of
\* the demande shown has settled: while the open of the demande shown is
\* still waiting, the state is "loading".
C30_AttachmentsOfSelectedDemande ==
    detailsView.selectedDemande # "" =>
        /\ \A k \in 1..Len(detailsView.detailAttachments) :
              detailsView.detailAttachments[k].demande = detailsView.selectedDemande
        /\ (/\ Len(detailsView.opens) >= 1
            /\ detailsView.opens[Len(detailsView.opens)].demande
                  = detailsView.selectedDemande
            /\ \A k \in 1..(Len(detailsView.opens) - 1) :
                  detailsView.opens[k].demande # detailsView.selectedDemande)
           => detailsView.detailState = "loading"

\* C30 witness: d1 was opened and closed, d2 is shown with its open still
\* waiting, and the late answer of d1's open put d1's attachment in the view.
C30_Witness ==
    /\ detailsView.selectedDemande = "d2"
    /\ detailsView.opens = <<[demande |-> "d2", awaiting |-> "ids"]>>
    /\ detailsView.detailAttachments = AttachmentsOfDemande("d1")
    /\ detailsView.detailState = "loaded"

(***************************************************************************)
(* Properties of the failed fetches of BrokersService, checked under       *)
(* SpecFailures.                                                           *)
(***************************************************************************)

\* The three caches
BrokersCaches == <<referentialCache, enterpriseCache, personCache>>

\* C29: a step in which the referential_for, the Enterprise or the Person
\* request of a key rejects leaves every entry of the three caches as it
\* was, and when the key had no entry before it has none afterwards, so
\* that the next call for the key sends a request.
C29_FailureLeavesCaches ==
    [][/\ \A f \in Fields :
            ReferentialRejected(f) =>
               /\ UNCHANGED BrokersCaches
               /\ ~referentialCache[f].has =>
                     GetReferentialMapSends(referentialCache', f) = 1
       /\ \A id \in LookupIds :
            EnterpriseRejected(id) =>
               /\ UNCHANGED BrokersCaches
               /\ ~enterpriseCache[id].has =>
                     GetEnterpriseNameStart(enterpriseCache', id).sent
       /\ \A id \in LookupIds :
            PersonRejected(id) =>
               /\ UNCHANGED BrokersCaches
               /\ ~personCache[id].has =>
                     GetPersonInfoStart(personCache', id).sent]_vars

\* C29 witness: the only request sent for OppStoID has failed and the field
\* has no entry while OppStuID keeps its entry, and the Person request of
\* id 1 has just rejected, person 1 having no entry and enterprise 1 its own.
C29_Witness ==
    /\ issued["OppStoID"] = 1
    /\ pending["OppStoID"] = 0
    /\ ~referentialCache["OppStoID"].has
    /\ referentialCache["OppStuID"].has
    /\ lastLookup.op = "rejected"
    /\ lastLookup.kind = "person"
    /\ lastLookup.id = "1"
    /\ ~personCache["1"].has
    /\ enterpriseCache["1"].has

====
